---- MODULE Spec2Model ----
(***************************************************************************)
(* EmoteMateApi: the emote ingestion pipeline (select -> fetch ->          *)
(* transcode -> store) run by a thread pool, the blob store it writes to,  *)
(* and the cache-aside layer of the request handlers.                      *)
(*                                                                         *)
(* Strings whose characters matter (display names, file names, blob names, *)
(* cache keys) are sequences of one-character strings.  Python's None is   *)
(* the record None; an exception that leaves a function is the record      *)
(* Raised.                                                                 *)
(***************************************************************************)
EXTENDS Integers, Sequences, FiniteSets, TLC

VARIABLES
    blobs,             \* the container: blob name -> stored content
    emotes,            \* the batch handed to process_emotes_batch
    folder,            \* its destination folder
    batch_pc,          \* "idle" | "running" | "returned" | "raised"
    task_pc,           \* per record: "queued" | "running" | "write" | "done"
    task_local,        \* per record: the locals of process_emote at the upload
    results,           \* per record: what process_emote returned
    processed_emotes,  \* what process_emotes_batch returned
    outcome,           \* per record: which step decided the record (history):
                       \* "pending", "select_none", "fetch_failed",
                       \* "store_error", "conflict" (ResourceExistsError),
                       \* "existing" (the blob was there), "stored" (written)
    key_pc,            \* key construction: "idle" | "request" | "key"
    key_variant,       \* "app" (src/app) | "main" (src/main.py)
    key_request,       \* the request whose cache key is built
    cache_key,         \* the key built for it
    redis,             \* the cache store: a set of entries (key, data, expires)
    now,               \* the clock, in seconds
    last_put,          \* per key, the last save_to_cache: data, time and ttl
    got,               \* the last get_from_cache: key, time and result
    route_pc,          \* endpoint: "idle" | "received" | "looked_up" | "responded"
    route_request,     \* the request the endpoint is serving
    route_local,       \* the endpoint's cache_key and cached_data
    response,          \* the response of the endpoint
    clear_pc,          \* clear_cache: "idle" | "responded"
    clear_response,    \* the response of clear_cache
    stor_pc,           \* storage listing endpoint: "idle" | "received" | "responded"
    stor_request,      \* its request: folder, page, limit
    stor_response,     \* its response
    sel_pc,            \* asset selection: "idle" | "given" | "selected"
    variants,          \* the variant list given to the selection
    selected,          \* the variant it selected
    img_pc,            \* transcoder: "idle" | "called" | "returned"
    img_call,          \* its arguments: the decoded image, size, max_bytes
    img_result,        \* the WebP it returned
    fetch_pc,          \* upstream fetch: "idle" | "called" | "returned"
    fetch_call,        \* which fetch function, and the upstream's reply
    fetch_result,      \* what the function returned, or Raised
    handle_pc,         \* per worker, in upload_to_azure_blob's availability
                       \* check: "start" | "init" | "service" | "ready" |
                       \* "unavailable"
    blob_service_client, \* the global of services/storage.py
    container_client,  \* the global of services/storage.py
    handle_writes,     \* per global, the workers that assigned it (history)
    azure_configured,  \* settings.AZURE_CONNECTION_STRING is set
    trend_pc,          \* trending endpoint: "idle" | "received" | "responded"
    trend_request,     \* its request and what the upstream holds for it
    trend_local,       \* its locals: the fetched records, the page slice
    trend_response     \* its response

pipeVars == <<blobs, emotes, folder, batch_pc, task_pc,
              task_local, results, processed_emotes, outcome>>

keyVars == <<key_pc, key_variant, key_request, cache_key>>

cacheVars == <<redis, now, last_put, got>>

routeVars == <<route_pc, route_request, route_local, response>>

clearVars == <<clear_pc, clear_response>>

storVars == <<stor_pc, stor_request, stor_response>>

selVars == <<sel_pc, variants, selected>>

imgVars == <<img_pc, img_call, img_result>>

(* the groups declared after selVars, and for each of them the others *)
fetchVars == <<fetch_pc, fetch_call, fetch_result>>

handleVars == <<handle_pc, blob_service_client, container_client,
                handle_writes, azure_configured>>

trendVars == <<trend_pc, trend_request, trend_local, trend_response>>

moreVars == <<imgVars, fetchVars, handleVars, trendVars>>
notImg == <<fetchVars, handleVars, trendVars>>
notFetch == <<imgVars, handleVars, trendVars>>
notHandle == <<imgVars, fetchVars, trendVars>>
notTrend == <<imgVars, fetchVars, handleVars>>

restVars == <<clearVars, storVars, selVars, moreVars>>

vars == <<pipeVars, keyVars, cacheVars, routeVars, restVars>>

-----------------------------------------------------------------------------
(* Bounds of the model *)

MaxBatch == 3      \* longest batch drawn from EmoteRecords
ExtraTasks == 1    \* the long batch holds max_workers + ExtraTasks records
MaxQueryLen == 2   \* longest query text of a request
MaxPage == 2       \* largest page number of a request
MaxClock == 5      \* the clock stops after MaxClock steps
MaxBlobs == 45     \* most items stored under the emote_api prefix
MaxStorPage == 3   \* largest page number of a storage listing request
MaxVariants == 2    \* longest "images" list given to the selection
MaxNameLen == 2     \* longest defaultName of a record processed alone
MaxEncoded == 2     \* largest length of an encoding, in bytes
MaxFrames == 2      \* most frames of an animated source image
MaxDim == 3         \* largest width or height, of a source and of a target
MaxItems == 2       \* most records in an upstream reply
MaxTrendPage == 4     \* highest page of a trending request
MaxUploaders == 3   \* most workers of a batch that reach the upload together

(* ThreadPoolExecutor(max_workers=10) *)
max_workers == 10

(* app/config.py lines 12-13 *)
CACHE_TTL == 86400
TRENDING_CACHE_TTL == 21600

None == [type |-> "None"]
Raised == [type |-> "Raised"]

-----------------------------------------------------------------------------
(* Characters and strings *)

AlnumChars ==
    {"a","b","c","d","e","f","g","h","i","j","k","l","m","n","o","p","q","r",
     "s","t","u","v","w","x","y","z","A","B","C","D","E","F","G","H","I","J",
     "K","L","M","N","O","P","Q","R","S","T","U","V","W","X","Y","Z",
     "0","1","2","3","4","5","6","7","8","9"}

EmoteApiFolder == <<"e","m","o","t","e","_","a","p","i">>
TrendingFolder == <<"t","r","e","n","d","i","n","g","_","e","m","o","t","e","s">>

(* mutant: only the alphanumeric characters are kept *)
safe_name_alnum_only(name) ==
    [i \in 1..Len(name) |-> IF name[i] \in AlnumChars THEN name[i] ELSE "_"]

(* "".join([c if c.isalnum() or c in "._- " else "_" for c in name]) *)
safe_name(name) ==
    [i \in 1..Len(name) |->
        IF name[i] \in AlnumChars \/ name[i] \in {".", "_", "-", " "}
        THEN name[i] ELSE "_"]

(* {"image/webp": ".webp", ...}.get(mime, ".png") *)
extension(mime) ==
    CASE mime = "image/webp" -> <<".","w","e","b","p">>
      [] mime = "image/gif"  -> <<".","g","i","f">>
      [] mime = "image/avif" -> <<".","a","v","i","f">>
      [] mime = "image/png"  -> <<".","p","n","g">>
      [] OTHER               -> <<".","p","n","g">>

file_name_of(emote, best_image) ==
    safe_name(emote.defaultName) \o extension(best_image.mime)

blob_name_of(fld, file_name) == fld \o <<"/">> \o file_name

(* blob_client.url: the container's base URL followed by the blob name *)
blob_url(blob_name) == [type |-> "url", blob |-> blob_name]

-----------------------------------------------------------------------------
(* Best-asset selection, process_emote lines 162-204 *)

(* Python's max(seq, key=scale): the first element of maximal scale *)
max_by_scale(s) ==
    LET F[i \in 1..Len(s)] ==
            IF i = 1 THEN s[1]
            ELSE IF s[i].scale > F[i-1].scale THEN s[i] ELSE F[i-1]
    IN  F[Len(s)]

is_animated(img) == img.frameCount > 1

animated_images(images) == SelectSeq(images, LAMBDA img : img.frameCount > 1)
static_images(images) == SelectSeq(images, LAMBDA img : img.frameCount <= 1)

of_mime(images, mime) == SelectSeq(images, LAMBDA img : img.mime = mime)

(* the first non-empty mime group in preference order, its max scale *)
first_group_max(images, mimes) ==
    LET F[i \in 0..Len(mimes)] ==
            IF i = 0 THEN None
            ELSE IF F[i-1] # None THEN F[i-1]
            ELSE IF of_mime(images, mimes[i]) # <<>>
                 THEN max_by_scale(of_mime(images, mimes[i]))
                 ELSE None
    IN  F[Len(mimes)]

(* mutant: avif before gif among the animated formats *)
animated_mimes_avif_first == <<"image/webp", "image/avif", "image/gif">>

(* mutant: png before webp among the static formats *)
static_mimes_png_first == <<"image/png", "image/webp", "image/avif">>

preferred_animated_mimes == <<"image/webp", "image/gif", "image/avif">>
preferred_static_mimes == <<"image/webp", "image/png", "image/avif">>

(* mutant: without the first priority, the animated webp of scale 4 *)
select_best_image_no_exact(images) ==
    LET anim == animated_images(images)
        stat == static_images(images)
        p3 == first_group_max(anim, preferred_animated_mimes)
        p4 == IF p3 # None THEN p3
              ELSE first_group_max(stat, preferred_static_mimes)
    IN  IF p4 # None THEN p4
        ELSE IF images # <<>> THEN images[1]
        ELSE None

(* mutant: without the final fallback to any image *)
select_best_image_no_fallback(images) ==
    LET anim == animated_images(images)
        stat == static_images(images)
        four == SelectSeq(anim, LAMBDA img :
                            img.mime = "image/webp" /\ img.scale = 4)
        p3 == IF four # <<>> THEN four[1]
              ELSE first_group_max(anim, preferred_animated_mimes)
    IN  IF p3 # None THEN p3
        ELSE first_group_max(stat, preferred_static_mimes)

(* mutant: a selection that looks at the container: once a blob is stored
   the first variant is taken *)
select_best_image_by_store(images) ==
    IF DOMAIN blobs # {} /\ images # <<>> THEN images[1]
    ELSE select_best_image_no_exact(images)

select_best_image(images) ==
    LET anim == animated_images(images)
        stat == static_images(images)
        four == SelectSeq(anim, LAMBDA img :
                            img.mime = "image/webp" /\ img.scale = 4)
        p1 == IF four # <<>> THEN four[1] ELSE None
        p2 == IF p1 # None THEN p1
              ELSE IF of_mime(anim, "image/webp") # <<>>
                   THEN max_by_scale(of_mime(anim, "image/webp"))
                   ELSE None
        p3 == IF p2 # None THEN p2
              ELSE first_group_max(anim, preferred_animated_mimes)
        p4 == IF p3 # None THEN p3
              ELSE first_group_max(stat, preferred_static_mimes)
    IN  IF p4 # None THEN p4
        ELSE IF images # <<>> THEN images[1]
        ELSE None

-----------------------------------------------------------------------------
(* Fetch and transcode, process_emote lines 206-218 *)

(* response.content of a 200 answer for the variant's url *)
response_content(url) == [data |-> url, resized |-> FALSE]

(* resize_and_pad_webp_bytes(content, size=(512, 512)) when it decodes *)
resize_and_pad_webp_bytes(content) == [data |-> content.data, resized |-> TRUE]

(* mutant: every animated variant is transcoded *)
needs_transcode_any_animated(best_image) == best_image.frameCount > 1

needs_transcode(best_image) ==
    best_image.mime = "image/webp" /\ best_image.frameCount > 1

(* the fetched bytes that Image.open or the frame decoding rejects: the
   bytes behind a url are fixed, and so is whether they decode *)
UndecodableData == {"u5"}

decodes(content) == content.data \notin UndecodableData

(* mutant: a transcoder exception loses the fetched bytes *)
processed_content_lost(best_image, content) ==
    IF needs_transcode(best_image)
    THEN IF decodes(content) THEN resize_and_pad_webp_bytes(content)
         ELSE [data |-> "", resized |-> FALSE]
    ELSE content

(* lines 213-218: the animated webp is transcoded; a transcoder exception
   is logged and the fetched bytes are kept *)
processed_content(best_image, content) ==
    IF needs_transcode(best_image) /\ decodes(content)
    THEN resize_and_pad_webp_bytes(content)
    ELSE content

(* the dictionary returned at lines 238-247 *)
emote_entry(emote, best_image, url) ==
    [type      |-> "entry",
     fileName  |-> file_name_of(emote, best_image),
     url       |-> url,
     emoteId   |-> emote.id,
     emoteName |-> emote.defaultName,
     animated  |-> best_image.frameCount > 1,
     scale     |-> best_image.scale,
     mime      |-> best_image.mime]

(* mutant: the exception leaves process_emote *)
process_emote_reraise(exc) == Raised

(* lines 248-250: every exception of the pipeline becomes None *)
process_emote_except(exc) == None

-----------------------------------------------------------------------------
(* The records the model draws batches from *)

Img(url, mime, frames, scale) ==
    [url |-> url, mime |-> mime, frameCount |-> frames, scale |-> scale]

EmoteRecords ==
    { [id |-> "e1", defaultName |-> <<"K","e","k","W">>,
       images |-> <<Img("u1", "image/webp", 12, 2),
                    Img("u2", "image/webp", 12, 4),
                    Img("u3", "image/gif", 12, 4)>>],
      [id |-> "e2", defaultName |-> <<"K","e","k","W">>,
       images |-> <<Img("u4", "image/png", 1, 2),
                    Img("u5", "image/webp", 9, 2)>>],
      [id |-> "e3", defaultName |-> <<"N","/","A">>,
       images |-> <<>>] }

NoImages == CHOOSE e \in EmoteRecords : e.images = <<>>

BoundedSeq(S, n) == UNION {[1..k -> S] : k \in 0..n}

(* a batch longer than the pool: records that stop at the selection *)
LongBatch == [i \in 1..(max_workers + ExtraTasks) |-> NoImages]

Batches == (BoundedSeq(EmoteRecords, MaxBatch) \ {<<>>}) \cup {LongBatch}

Folders == {EmoteApiFolder}

Tasks == 1..Len(emotes)

-----------------------------------------------------------------------------
(* The pipeline's state machine *)

NoLocal == [type |-> "None"]

PipeInit ==
    /\ blobs = <<>>
    /\ emotes = <<>>
    /\ folder = EmoteApiFolder
    /\ batch_pc = "idle"
    /\ task_pc = <<>>
    /\ task_local = <<>>
    /\ results = <<>>
    /\ processed_emotes = <<>>
    /\ outcome = <<>>

(* mutant: one thread per record *)
may_start_always(busy) == TRUE

(* ThreadPoolExecutor(max_workers=10): a record is taken up while fewer than
   max_workers workers are busy *)
may_start(busy) == busy < max_workers

(* process_emotes_batch is entered: executor.map submits every record in
   order; each submit starts a worker thread while the pool is not full, and
   the thread takes the oldest record of the queue; the others wait *)
SubmitBatch(batch, fld) ==
    /\ emotes' = batch
    /\ folder' = fld
    /\ batch_pc' = "running"
    /\ task_pc' = [i \in 1..Len(batch) |->
                      IF may_start(i - 1) THEN "running" ELSE "queued"]
    /\ task_local' = [i \in 1..Len(batch) |-> NoLocal]
    /\ results' = [i \in 1..Len(batch) |-> None]
    /\ processed_emotes' = <<>>
    /\ outcome' = [i \in 1..Len(batch) |-> "pending"]
    /\ UNCHANGED <<blobs, keyVars, cacheVars, routeVars, restVars>>

Submit ==
    /\ batch_pc = "idle"
    /\ \E batch \in Batches, fld \in Folders : SubmitBatch(batch, fld)

in_progress == {t \in Tasks : task_pc[t] \in {"running", "write"}}

(* a worker that has finished a record takes the next one of the queue *)
StartTask(t) ==
    /\ batch_pc = "running"
    /\ task_pc[t] = "queued"
    /\ \A u \in 1..(t-1) : task_pc[u] # "queued"
    /\ may_start(Cardinality(in_progress))
    /\ task_pc' = [task_pc EXCEPT ![t] = "running"]
    /\ UNCHANGED <<blobs, emotes, folder, batch_pc,
                   task_local, results, processed_emotes, outcome>>
    /\ UNCHANGED <<keyVars, cacheVars, routeVars, restVars>>

Finish(t, res, why) ==
    /\ task_pc' = [task_pc EXCEPT ![t] = "done"]
    /\ results' = [results EXCEPT ![t] = res]
    /\ outcome' = [outcome EXCEPT ![t] = why]

(* mutant: the existence check never finds the blob *)
get_blob_properties_blind(name, fault) ==
    IF fault THEN "error" ELSE "not_found"

(* upload_to_azure_blob up to its existence check: "found",
   "not_found" (ResourceNotFoundError) or "error" (the storage is not
   available, or get_blob_properties raised another exception) *)
get_blob_properties(name, fault) ==
    IF fault THEN "error"
    ELSE IF name \in DOMAIN blobs THEN "found" ELSE "not_found"

(* mutant: a failed download still reaches upload_to_azure_blob and its
   existence check *)
FetchFailed_probing(t, status) ==
    /\ Finish(t, None, "fetch_failed")
    /\ task_local' = [task_local EXCEPT ![t] =
                         [type |-> "locals", best_image |-> None,
                          content |-> <<>>, blob_name |-> <<>>,
                          processing_error |-> FALSE]]

(* the download failed: requests.get raised (caught at lines 248-250) or
   answered with a status other than 200 (lines 208-210) *)
FetchFailed(t, status) ==
    /\ Finish(t, IF status = 0 THEN process_emote_except("RequestException")
                 ELSE None,
              "fetch_failed")
    /\ UNCHANGED task_local

(* status 200: transcoding, naming, and upload_to_azure_blob up to its
   existence check *)
Fetched(t, best, store_fault) ==
    LET emote == emotes[t]
        content == processed_content(best, response_content(best.url))
        name == blob_name_of(folder, file_name_of(emote, best))
        probe == get_blob_properties(name, store_fault)
    IN  /\ task_local' = [task_local EXCEPT ![t] =
                            [type |-> "locals", best_image |-> best,
                             content |-> content, blob_name |-> name,
                             processing_error |->
                                 needs_transcode(best)
                                 /\ ~decodes(response_content(best.url))]]
        /\ IF probe = "found"
           THEN Finish(t, emote_entry(emote, best, blob_url(name)), "existing")
           ELSE IF probe = "error"
           THEN Finish(t, None, "store_error")
           ELSE /\ task_pc' = [task_pc EXCEPT ![t] = "write"]
                /\ UNCHANGED <<results, outcome>>

(* process_emote from its first line to the existence check of
   upload_to_azure_blob: selection, download, transcoding, naming *)
RunTask(t) ==
    /\ batch_pc = "running"
    /\ task_pc[t] = "running"
    /\ LET best == select_best_image(emotes[t].images)
       IN  IF best = None
           THEN /\ Finish(t, None, "select_none")
                /\ UNCHANGED task_local
           ELSE \/ \E status \in {0, 404} : FetchFailed(t, status)
                \/ \E store_fault \in BOOLEAN : Fetched(t, best, store_fault)
    /\ UNCHANGED <<blobs, emotes, folder, batch_pc, processed_emotes>>
    /\ UNCHANGED <<keyVars, cacheVars, routeVars, restVars>>

(* mutant: upload_blob(data, overwrite=True) *)
upload_blob_overwrite(store, name, data, fault) ==
    IF fault THEN [type |-> "error", store |-> store]
    ELSE [type |-> "ok", store |-> [n \in DOMAIN store \cup {name} |->
                                      IF n = name THEN data ELSE store[n]]]

(* mutant: the upload returns without having written the blob *)
upload_blob_lost(store, name, data, fault) ==
    IF fault THEN [type |-> "error", store |-> store]
    ELSE [type |-> "ok", store |-> store]

(* blob_client.upload_blob(data): overwrite defaults to False, so the call
   raises ResourceExistsError when the blob exists by now *)
upload_blob(store, name, data, fault) ==
    IF fault THEN [type |-> "error", store |-> store]
    ELSE IF name \in DOMAIN store
    THEN [type |-> "ResourceExistsError", store |-> store]
    ELSE [type |-> "ok", store |-> [n \in DOMAIN store \cup {name} |->
                                      IF n = name THEN data ELSE store[n]]]

(* upload_to_azure_blob after ResourceNotFoundError: the write, then the
   rest of process_emote *)
WriteTask(t) ==
    /\ batch_pc = "running"
    /\ task_pc[t] = "write"
    /\ \E store_fault \in BOOLEAN :
         LET loc == task_local[t]
             put == upload_blob(blobs, loc.blob_name, loc.content, store_fault)
         IN  /\ blobs' = put.store
             /\ IF put.type = "ok"
                THEN Finish(t, emote_entry(emotes[t], loc.best_image,
                                           blob_url(loc.blob_name)), "stored")
                ELSE IF put.type = "ResourceExistsError"
                THEN Finish(t, None, "conflict")
                ELSE Finish(t, None, "store_error")
    /\ UNCHANGED <<emotes, folder, batch_pc, task_local,
                   processed_emotes>>
    /\ UNCHANGED <<keyVars, cacheVars, routeVars, restVars>>

(* mutant: the results are collected last record first *)
truthy_results_reversed(res) ==
    LET kept == SelectSeq(res, LAMBDA r : r.type = "entry")
    IN  [i \in 1..Len(kept) |-> kept[Len(kept) + 1 - i]]

(* [result for result in results if result] *)
truthy_results(res) == SelectSeq(res, LAMBDA r : r.type = "entry")

(* mutant: the batch returns as soon as the first record is done *)
first_task_done == task_pc[1] = "done"

all_tasks_done == \A t \in Tasks : task_pc[t] = "done"

(* list(executor.map(...)) has every result; the with block has joined the
   workers; process_emotes_batch returns *)
ReturnBatch ==
    /\ batch_pc = "running"
    /\ all_tasks_done
    /\ IF \E t \in Tasks : results[t] = Raised
       THEN /\ batch_pc' = "raised"
            /\ processed_emotes' = <<>>
       ELSE /\ batch_pc' = "returned"
            /\ processed_emotes' = truthy_results(results)
    /\ UNCHANGED <<blobs, emotes, folder, task_pc,
                   task_local, results, outcome>>
    /\ UNCHANGED <<keyVars, cacheVars, routeVars, restVars>>

(* the caller has taken the result (or the exception); the call's frame is
   gone *)
EndBatch ==
    /\ batch_pc \in {"returned", "raised"}
    /\ emotes' = <<>>
    /\ folder' = EmoteApiFolder
    /\ batch_pc' = "idle"
    /\ task_pc' = <<>>
    /\ task_local' = <<>>
    /\ results' = <<>>
    /\ processed_emotes' = <<>>
    /\ outcome' = <<>>
    /\ UNCHANGED <<blobs, keyVars, cacheVars, routeVars, restVars>>

Next ==
    \/ Submit
    \/ EndBatch
    \/ \E t \in Tasks : StartTask(t)
    \/ \E t \in Tasks : RunTask(t)
    \/ \E t \in Tasks : WriteTask(t)
    \/ ReturnBatch

-----------------------------------------------------------------------------
(* Cache keys, app/services/cache.py lines 26-32 and main.py lines 99-105,
   422 *)

Digit(d) == <<"0","1","2","3","4","5","6","7","8","9">>[d + 1]

(* str(n) of a non-negative int, as an f-string formats it *)
RECURSIVE int_str(_)
int_str(n) ==
    IF n < 10 THEN <<Digit(n)>> ELSE int_str(n \div 10) \o <<Digit(n % 10)>>

(* str(b) of a bool *)
bool_str(b) ==
    IF b THEN <<"T","r","u","e">> ELSE <<"F","a","l","s","e">>

SearchPrefix == <<"e","m","o","t","e","_","s","e","a","r","c","h">>
TrendingPrefix == <<"t","r","e","n","d","i","n","g">>
Colon == <<":">>

(* mutant: the page is left out of the key *)
get_cache_key_no_page(query, limit, animated_only, page) ==
    SearchPrefix \o Colon \o query \o Colon \o int_str(limit) \o Colon
        \o bool_str(animated_only)

(* f"emote_search:{query}:{limit}:{animated_only}:{page}" *)
get_cache_key(query, limit, animated_only, page) ==
    SearchPrefix \o Colon \o query \o Colon \o int_str(limit) \o Colon
        \o bool_str(animated_only) \o Colon \o int_str(page)

(* f"trending:{period}:{limit}:{animated_only}:{page}" *)
get_trending_cache_key(period, limit, animated_only, page) ==
    TrendingPrefix \o Colon \o period \o Colon \o int_str(limit) \o Colon
        \o bool_str(animated_only) \o Colon \o int_str(page)

(* main.py: f"emote_search:{query}:{limit}:{animated_only}"; its
   SearchRequest has no page *)
main_get_cache_key(query, limit, animated_only) ==
    SearchPrefix \o Colon \o query \o Colon \o int_str(limit) \o Colon
        \o bool_str(animated_only)

(* main.py line 422: f"trending:{period}:{limit}:{page}:{animated_only}" *)
main_trending_cache_key(period, limit, page, animated_only) ==
    TrendingPrefix \o Colon \o period \o Colon \o int_str(limit) \o Colon
        \o int_str(page) \o Colon \o bool_str(animated_only)

(* TrendingPeriod values *)
TrendingPeriods ==
    { <<"t","r","e","n","d","i","n","g","_","d","a","i","l","y">>,
      <<"p","o","p","u","l","a","r","i","t","y">> }

QueryChars == {"a", ":", "1"}
Queries == BoundedSeq(QueryChars, MaxQueryLen) \ {<<>>}
Limits == {1, 11, 100}
Pages == 1..MaxPage

(* the requests the endpoints of a variant accept; main.py's search request
   carries no page *)
Requests(variant) ==
    [kind : {"search"}, text : Queries, limit : Limits,
     animated_only : BOOLEAN,
     page : IF variant = "app" THEN Pages ELSE {1}]
    \cup
    [kind : {"trending"}, text : TrendingPeriods, limit : Limits,
     animated_only : BOOLEAN, page : Pages]

(* the key the endpoint of the variant builds for request r *)
request_key(variant, r) ==
    IF variant = "app"
    THEN IF r.kind = "search"
         THEN get_cache_key(r.text, r.limit, r.animated_only, r.page)
         ELSE get_trending_cache_key(r.text, r.limit, r.animated_only, r.page)
    ELSE IF r.kind = "search"
         THEN main_get_cache_key(r.text, r.limit, r.animated_only)
         ELSE main_trending_cache_key(r.text, r.limit, r.page, r.animated_only)

NoRequest == [kind |-> "none"]

KeyIdle ==
    /\ key_pc = "idle"
    /\ key_variant = "app"
    /\ key_request = NoRequest
    /\ cache_key = <<>>

(* a request arrives at an endpoint *)
KeyReceive ==
    /\ key_pc = "idle"
    /\ \E v \in {"app", "main"} : \E r \in Requests(v) :
          /\ key_variant' = v
          /\ key_request' = r
    /\ key_pc' = "request"
    /\ UNCHANGED <<cache_key, pipeVars, cacheVars, routeVars, restVars>>

(* the endpoint builds the cache key of its request *)
KeyBuild ==
    /\ key_pc = "request"
    /\ cache_key' = request_key(key_variant, key_request)
    /\ key_pc' = "key"
    /\ UNCHANGED <<key_variant, key_request, pipeVars, cacheVars, routeVars, restVars>>

(* the request is over *)
KeyDone ==
    /\ key_pc = "key"
    /\ key_pc' = "idle"
    /\ key_variant' = "app"
    /\ key_request' = NoRequest
    /\ cache_key' = <<>>
    /\ UNCHANGED <<pipeVars, cacheVars, routeVars, restVars>>

KeyNext == KeyReceive \/ KeyBuild \/ KeyDone

-----------------------------------------------------------------------------
(* JSON: json.dumps writes a text, here a sequence of tokens; json.loads
   parses one.  A string is one token between two quote tokens, a number is
   its decimal digits, one token each. *)

Quote == "\""

(* the Python type of the value under each key of a response dict and of an
   entry of its emotes list; processingTime is counted in whole units *)
KeyType ==
    [success |-> "bool", totalFound |-> "int", emotes |-> "list",
     message |-> "str", cached |-> "bool", processingTime |-> "int",
     page |-> "int", totalPages |-> "int", resultsPerPage |-> "int",
     hasNextPage |-> "bool", emoteId |-> "str", animated |-> "bool"]

(* the order in which the endpoints insert the keys *)
KeyOrder ==
    <<"success", "totalFound", "emotes", "message", "processingTime", "page",
      "totalPages", "resultsPerPage", "hasNextPage", "cached", "emoteId",
      "animated">>

RECURSIVE dumps_dict(_), dumps_members(_, _, _), dumps_list(_, _)

dumps_scalar(type, v) ==
    IF type = "bool" THEN <<IF v THEN "true" ELSE "false">>
    ELSE IF type = "int" THEN int_str(v)
    ELSE <<Quote, v, Quote>>

dumps_list(list, i) ==
    IF i > Len(list) THEN <<>>
    ELSE (IF i > 1 THEN <<",">> ELSE <<>>) \o dumps_dict(list[i])
             \o dumps_list(list, i + 1)

dumps_members(d, i, first) ==
    IF i > Len(KeyOrder) THEN <<>>
    ELSE LET k == KeyOrder[i]
         IN  IF k \notin DOMAIN d THEN dumps_members(d, i + 1, first)
             ELSE (IF first THEN <<>> ELSE <<",">>)
                      \o <<Quote, k, Quote, ":">>
                      \o (IF KeyType[k] = "list"
                          THEN <<"[">> \o dumps_list(d[k], 1) \o <<"]">>
                          ELSE dumps_scalar(KeyType[k], d[k]))
                      \o dumps_members(d, i + 1, FALSE)

dumps_dict(d) == <<"{">> \o dumps_members(d, 1, TRUE) \o <<"}">>

json_dumps(data) == dumps_dict(data)

DigitTokens == {Digit(d) : d \in 0..9}

digit_value(tok) == CHOOSE d \in 0..9 : Digit(d) = tok

RECURSIVE parse_value(_, _), parse_int(_, _, _), parse_items(_, _, _)
RECURSIVE parse_members(_, _, _)

(* the dict of a sequence of <<key, value>> pairs; a later pair wins *)
dict_of(pairs) ==
    [k \in {pairs[j][1] : j \in DOMAIN pairs} |->
        LET last == CHOOSE j \in DOMAIN pairs :
                        /\ pairs[j][1] = k
                        /\ \A m \in DOMAIN pairs : pairs[m][1] = k => m <= j
        IN  pairs[last][2]]

parse_int(text, i, acc) ==
    IF i <= Len(text) /\ text[i] \in DigitTokens
    THEN parse_int(text, i + 1, 10 * acc + digit_value(text[i]))
    ELSE [v |-> acc, n |-> i]

parse_items(text, i, acc) ==
    LET item == parse_value(text, i)
        items == Append(acc, item.v)
    IN  IF text[item.n] = ","
        THEN parse_items(text, item.n + 1, items)
        ELSE [v |-> items, n |-> item.n + 1]

parse_members(text, i, acc) ==
    LET member == parse_value(text, i + 4)
        members == Append(acc, <<text[i + 1], member.v>>)
    IN  IF text[member.n] = ","
        THEN parse_members(text, member.n + 1, members)
        ELSE [v |-> dict_of(members), n |-> member.n + 1]

(* the value that starts at token i, and the place after it *)
parse_value(text, i) ==
    LET tok == text[i]
    IN  IF tok = "true" THEN [v |-> TRUE, n |-> i + 1]
        ELSE IF tok = "false" THEN [v |-> FALSE, n |-> i + 1]
        ELSE IF tok = "null" THEN [v |-> None, n |-> i + 1]
        ELSE IF tok = Quote THEN [v |-> text[i + 1], n |-> i + 3]
        ELSE IF tok = "["
        THEN IF text[i + 1] = "]" THEN [v |-> <<>>, n |-> i + 2]
             ELSE parse_items(text, i + 1, <<>>)
        ELSE IF tok = "{"
        THEN IF text[i + 1] = "}" THEN [v |-> <<>>, n |-> i + 2]
             ELSE parse_members(text, i + 1, <<>>)
        ELSE parse_int(text, i, 0)

json_loads(text) == parse_value(text, 1).v

-----------------------------------------------------------------------------
(* The cache layer, app/services/cache.py lines 34-47, over a Redis store *)

(* mutant: SETEX adds its entry and leaves the key's old entry in place *)
setex_keep(store, key, ttl, data, t) ==
    store \cup {[key |-> key, data |-> data, expires |-> t + ttl]}

(* Redis SETEX key ttl data at time t: the key holds data, and expires ttl
   seconds later; what the key held is gone *)
setex(store, key, ttl, data, t) ==
    {e \in store : e.key # key}
        \cup {[key |-> key, data |-> data, expires |-> t + ttl]}

live(e, t) == t < e.expires

(* Redis GET key at time t: the bytes the key holds, or None *)
redis_get(store, key, t) ==
    LET held == {e \in store : e.key = key /\ live(e, t)}
    IN  IF held = {} THEN None
        ELSE [type |-> "bytes", data |-> (CHOOSE e \in held : TRUE).data]

get_from_cache(store, key, t) ==
    LET cached_data == redis_get(store, key, t)
    IN  IF cached_data # None /\ Len(cached_data.data) > 0
        THEN json_loads(cached_data.data)
        ELSE None

save_to_cache(store, key, data, ttl, t) ==
    setex(store, key, ttl, json_dumps(data), t)

(* the response dicts the endpoints build; an entry of emotes is cut down to
   its emoteId and animated keys *)
EmptyResult ==
    [success |-> TRUE, totalFound |-> 0, emotes |-> <<>>,
     message |-> "No emotes found for the given query",
     processingTime |-> 1, page |-> 1, totalPages |-> 1]

FoundResult ==
    [success |-> TRUE, totalFound |-> 12,
     emotes |-> << [emoteId |-> "e1", animated |-> TRUE],
                   [emoteId |-> "e2", animated |-> FALSE] >>,
     processingTime |-> 2, page |-> 1, totalPages |-> 1]

Payloads == {EmptyResult, FoundResult}

Ttls == {CACHE_TTL, TRENDING_CACHE_TTL}

SearchA(page) ==
    [kind |-> "search", text |-> <<"a">>, limit |-> 1,
     animated_only |-> FALSE, page |-> page]

TrendingDaily ==
    [kind |-> "trending",
     text |-> <<"t","r","e","n","d","i","n","g","_","d","a","i","l","y">>,
     limit |-> 1, animated_only |-> FALSE, page |-> 1]

EmptyQuery ==
    [kind |-> "search", text |-> <<>>, limit |-> 1, animated_only |-> FALSE,
     page |-> 1]

(* the keys the cache is asked for *)
CacheKeys == {request_key("app", SearchA(1)), request_key("app", TrendingDaily)}

NoPut == [type |-> "None"]
NoGet == [type |-> "None"]

CacheInit ==
    /\ redis = {}
    /\ now = 0
    /\ last_put = [k \in CacheKeys |-> NoPut]
    /\ got = NoGet

(* a caller saves data under a key *)
SaveToCache ==
    /\ \E k \in CacheKeys, data \in Payloads, ttl \in Ttls :
          /\ redis' = save_to_cache(redis, k, data, ttl, now)
          /\ last_put' = [last_put EXCEPT
                             ![k] = [data |-> data, at |-> now, ttl |-> ttl]]
    /\ got' = NoGet
    /\ UNCHANGED <<now, pipeVars, keyVars, routeVars, restVars>>

(* a caller asks for a key *)
GetFromCache ==
    /\ \E k \in CacheKeys :
          got' = [key |-> k, at |-> now,
                  result |-> get_from_cache(redis, k, now)]
    /\ UNCHANGED <<redis, now, last_put, pipeVars, keyVars, routeVars, restVars>>

(* six hours pass *)
Tick ==
    /\ now < MaxClock * TRENDING_CACHE_TTL
    /\ now' = now + TRENDING_CACHE_TTL
    /\ got' = NoGet
    /\ UNCHANGED <<redis, last_put, pipeVars, keyVars, routeVars, restVars>>

CacheNext == SaveToCache \/ GetFromCache \/ Tick

-----------------------------------------------------------------------------
(* The endpoints, app/api/routes/emotes.py lines 17-78 and
   app/api/routes/trending.py lines 18-85 *)

ttl_of(r) == IF r.kind = "search" THEN CACHE_TTL ELSE TRENDING_CACHE_TTL

RouteRequests == {SearchA(1), SearchA(2), TrendingDaily, EmptyQuery}

ProcessingTimes == {3}

NoResponse == [status |-> 0]

HTTPException(status_code) == [status |-> status_code]

(* an exception no handler catches: the server answers 500 *)
Unhandled(exc) == [status |-> 500, error |-> exc]

RouteIdle ==
    /\ route_pc = "idle"
    /\ route_request = NoRequest
    /\ route_local = NoLocal
    /\ response = NoResponse

(* a request arrives *)
RouteReceive ==
    /\ route_pc = "idle"
    /\ \E r \in RouteRequests : route_request' = r
    /\ route_pc' = "received"
    /\ UNCHANGED <<route_local, response, pipeVars, keyVars, cacheVars, restVars>>

(* search_emotes lines 24-35, trending_emotes lines 35-37: the query check,
   the cache key, the lookup; when the store is unreachable redis_client.get
   raises, and neither get_from_cache nor the endpoint catches it *)
RouteLookup ==
    /\ route_pc = "received"
    /\ IF route_request.kind = "search" /\ route_request.text = <<>>
       THEN /\ response' = HTTPException(400)
            /\ route_pc' = "responded"
            /\ UNCHANGED route_local
       ELSE LET key == request_key("app", route_request)
            IN  \E unreachable \in BOOLEAN :
                  IF unreachable
                  THEN /\ route_local' =
                              [cache_key |-> key, raised |-> "ConnectionError"]
                       /\ response' = Unhandled("ConnectionError")
                       /\ route_pc' = "responded"
                  ELSE /\ route_local' =
                              [cache_key |-> key,
                               cached_data |-> get_from_cache(redis, key, now)]
                       /\ route_pc' = "looked_up"
                       /\ UNCHANGED response
    /\ UNCHANGED <<route_request, pipeVars, keyVars, cacheVars, restVars>>

(* if cached_data: of a dict or None *)
truthy(cached_data) == cached_data # None /\ DOMAIN cached_data # {}

(* cached_data["processingTime"] = ...; cached_data["cached"] = True *)
hit_response(cached_data, elapsed) ==
    [k \in DOMAIN cached_data \cup {"processingTime", "cached"} |->
        IF k = "processingTime" THEN elapsed
        ELSE IF k = "cached" THEN TRUE
        ELSE cached_data[k]]

(* mutant: a hit writes the entry back with a fresh expiry *)
RouteHit_refreshing ==
    /\ route_pc = "looked_up"
    /\ truthy(route_local.cached_data)
    /\ \E elapsed \in ProcessingTimes :
          response' = [status |-> 200,
                       body |-> hit_response(route_local.cached_data, elapsed)]
    /\ redis' = save_to_cache(redis, route_local.cache_key,
                              route_local.cached_data, ttl_of(route_request),
                              now)
    /\ route_pc' = "responded"
    /\ UNCHANGED <<route_request, route_local, now, last_put, got>>
    /\ UNCHANGED <<pipeVars, keyVars, restVars>>

(* lines 36-39 (38-41 of trending): the cached data is the response *)
RouteHit ==
    /\ route_pc = "looked_up"
    /\ truthy(route_local.cached_data)
    /\ \E elapsed \in ProcessingTimes :
          response' = [status |-> 200,
                       body |-> hit_response(route_local.cached_data, elapsed)]
    /\ route_pc' = "responded"
    /\ UNCHANGED <<route_request, route_local, pipeVars, keyVars, cacheVars, restVars>>

(* lines 42-48 (44-45 of trending): fetch_7tv_emotes_api has no parameter
   session, and fetch_7tv_trending_emotes takes three arguments, not four: the
   call raises TypeError before anything is fetched *)
RouteMiss ==
    /\ route_pc = "looked_up"
    /\ ~truthy(route_local.cached_data)
    /\ response' = Unhandled("TypeError")
    /\ route_pc' = "responded"
    /\ UNCHANGED <<route_request, route_local, pipeVars, keyVars, cacheVars, restVars>>

(* the response is sent *)
RouteDone ==
    /\ route_pc = "responded"
    /\ route_pc' = "idle"
    /\ route_request' = NoRequest
    /\ route_local' = NoLocal
    /\ response' = NoResponse
    /\ UNCHANGED <<pipeVars, keyVars, cacheVars, restVars>>

RouteNext ==
    \/ SaveToCache
    \/ Tick
    \/ RouteReceive
    \/ RouteLookup
    \/ RouteHit
    \/ RouteMiss
    \/ RouteDone

-----------------------------------------------------------------------------
(* clear_cache, app/api/routes/cache.py lines 41-86 *)

(* "from app.services.cache import redis_client" (routes/cache.py line 2)
   binds the name when the module is imported, before init_redis runs: the
   value is the None of services/cache.py line 6, and init_redis rebinds only
   the name of services/cache.py *)
routes_cache_redis_client == None

RECURSIVE glob_match(_, _)
(* Redis glob matching of a key, for patterns of literal characters and * *)
glob_match(pattern, key) ==
    IF pattern = <<>> THEN key = <<>>
    ELSE IF Head(pattern) = "*"
         THEN \/ glob_match(Tail(pattern), key)
              \/ key # <<>> /\ glob_match(pattern, Tail(key))
         ELSE /\ key # <<>>
              /\ Head(key) = Head(pattern)
              /\ glob_match(Tail(pattern), Tail(key))

RECURSIVE split(_, _)
(* str.split(sep) for a one-character separator *)
split(text, sep) ==
    IF \A i \in DOMAIN text : text[i] # sep THEN <<text>>
    ELSE LET i == CHOOSE j \in DOMAIN text :
                      text[j] = sep /\ \A m \in 1..(j - 1) : text[m] # sep
         IN  <<SubSeq(text, 1, i - 1)>>
                 \o split(SubSeq(text, i + 1, Len(text)), sep)

SearchPattern == SearchPrefix \o <<":", "*">>
TrendingPattern == TrendingPrefix \o <<":", "*">>

CacheTypes == {"all", "search", "trending", "everything"}

(* lines 53-64: the pattern of a cache_type, None for an invalid one *)
pattern_of(cache_type) ==
    IF cache_type = "all"
    THEN [type |-> "str", text |-> SearchPattern \o <<"|">> \o TrendingPattern]
    ELSE IF cache_type = "search"
    THEN [type |-> "str", text |-> SearchPattern]
    ELSE IF cache_type = "trending"
    THEN [type |-> "str", text |-> TrendingPattern]
    ELSE None

RECURSIVE set_to_seq(_)
set_to_seq(S) ==
    IF S = {} THEN <<>>
    ELSE LET x == CHOOSE y \in S : TRUE IN <<x>> \o set_to_seq(S \ {x})

(* Redis KEYS pattern at time t: the live keys that match *)
redis_keys(store, pattern, t) ==
    set_to_seq({e.key : e \in {f \in store :
                                   live(f, t) /\ glob_match(pattern, f.key)}})

RECURSIVE all_keys_of(_, _, _)
(* lines 68-71: the keys of every pattern, one after the other *)
all_keys_of(store, patterns, t) ==
    IF patterns = <<>> THEN <<>>
    ELSE redis_keys(store, Head(patterns), t)
             \o all_keys_of(store, Tail(patterns), t)

(* Redis DEL keys *)
redis_delete(store, keys) ==
    {e \in store : \A i \in DOMAIN keys : keys[i] # e.key}

(* f"Cache cleared. {len(all_keys)} entries removed." *)
cleared_message(n) ==
    <<"Cache cleared. ">> \o int_str(n) \o <<" entries removed.">>

ClearIdle ==
    /\ clear_pc = "idle"
    /\ clear_response = NoResponse

(* one call of clear_cache *)
ClearCache ==
    /\ clear_pc = "idle"
    /\ clear_pc' = "responded"
    /\ \E cache_type \in CacheTypes :
          LET pattern == pattern_of(cache_type)
          IN  IF pattern = None
              THEN /\ clear_response' =
                          [status |-> 200,
                           body |-> [success |-> FALSE,
                                     message |-> <<"Invalid cache_type. Options are: all, search, trending">>],
                           cache_type |-> cache_type]
                   /\ UNCHANGED redis
              ELSE IF routes_cache_redis_client = None
              THEN (* line 70: None has no attribute keys; AttributeError is
                      not a RedisError *)
                   /\ clear_response' =
                          [status |-> 500, error |-> "AttributeError",
                           cache_type |-> cache_type]
                   /\ UNCHANGED redis
              ELSE \E fault \in BOOLEAN :
                     IF fault
                     THEN /\ clear_response' =
                                 [status |-> 200,
                                  body |-> [success |-> FALSE,
                                            message |-> <<"Error clearing cache: ">>],
                                  cache_type |-> cache_type]
                          /\ UNCHANGED redis
                     ELSE LET all_keys ==
                                  all_keys_of(redis, split(pattern.text, "|"), now)
                          IN  /\ redis' = IF all_keys # <<>>
                                          THEN redis_delete(redis, all_keys)
                                          ELSE redis
                              /\ clear_response' =
                                     [status |-> 200,
                                      body |-> [success |-> TRUE,
                                                message |-> cleared_message(Len(all_keys)),
                                                type |-> cache_type],
                                      cache_type |-> cache_type]
    /\ UNCHANGED <<now, last_put, got, pipeVars, keyVars, routeVars,
                   storVars, selVars, moreVars>>

(* the response is sent *)
ClearDone ==
    /\ clear_pc = "responded"
    /\ clear_pc' = "idle"
    /\ clear_response' = NoResponse
    /\ UNCHANGED <<pipeVars, keyVars, cacheVars, routeVars, storVars, selVars, moreVars>>

ClearNext == SaveToCache \/ Tick \/ ClearCache \/ ClearDone

StorIdle ==
    /\ stor_pc = "idle"
    /\ stor_request = NoRequest
    /\ stor_response = NoResponse

-----------------------------------------------------------------------------
(* The storage listing endpoints, app/api/routes/storage.py lines 13-270,
   and list_blobs_with_prefix, app/services/storage.py lines 90-101 *)

(* "from app.services.storage import container_client" (routes/storage.py
   line 3) binds the name when the module is imported: the None of
   services/storage.py line 10; init_azure_storage rebinds only the name of
   services/storage.py *)
routes_storage_container_client == None

(* the characters of blob names in code point order *)
CodePoints ==
    <<".", "/", "0", "1", "2", "3", "4", "5", "6", "7", "8", "9", "_",
      "a", "b", "c", "d", "e", "f", "g", "h", "i", "j", "k", "l", "m", "n",
      "o", "p", "q", "r", "s", "t", "u", "v", "w", "x", "y", "z">>

ord(c) == CHOOSE i \in DOMAIN CodePoints : CodePoints[i] = c

RECURSIVE str_less(_, _)
(* a < b of two Python strings *)
str_less(a, b) ==
    IF b = <<>> THEN FALSE
    ELSE IF a = <<>> THEN TRUE
    ELSE IF Head(a) = Head(b) THEN str_less(Tail(a), Tail(b))
    ELSE ord(Head(a)) < ord(Head(b))

(* blob_list.sort(key=lambda b: b.name) *)
sort_by_name(names) == SortSeq(names, str_less)

starts_with(text, prefix) ==
    Len(text) >= Len(prefix) /\ SubSeq(text, 1, Len(prefix)) = prefix

RECURSIVE str_replace(_, _)
(* text.replace(old, ""): every occurrence of old is removed *)
str_replace(text, old) ==
    IF Len(text) < Len(old) THEN text
    ELSE IF starts_with(text, old)
    THEN str_replace(SubSeq(text, Len(old) + 1, Len(text)), old)
    ELSE <<Head(text)>> \o str_replace(Tail(text), old)

(* os.path.splitext(file_name)[0]: the name without its last extension; a
   dot that starts the last path component starts no extension *)
splitext_root(file_name) ==
    LET seps == {i \in DOMAIN file_name : file_name[i] = "/"}
        first == IF seps = {} THEN 1
                 ELSE 1 + CHOOSE i \in seps : \A j \in seps : j <= i
        dots == {i \in DOMAIN file_name :
                     /\ file_name[i] = "."
                     /\ i > first
                     /\ \E j \in first..(i - 1) : file_name[j] # "."}
    IN  IF dots = {} THEN file_name
        ELSE SubSeq(file_name, 1, (CHOOSE i \in dots : \A j \in dots : j <= i) - 1)

(* container_client.list_blobs(name_starts_with=prefix), in the store's
   order *)
list_blobs(store, prefix) ==
    set_to_seq({name \in DOMAIN store : starts_with(name, prefix)})

(* list_blobs_with_prefix: [] when the storage is not available, and []
   when the listing raises *)
list_blobs_with_prefix(store, prefix, available, fault) ==
    IF ~available THEN <<>>
    ELSE IF fault THEN <<>>
    ELSE list_blobs(store, prefix)

(* the SearchResponse of a dict: its fields, the defaults for the others *)
SearchResponse(data) ==
    LET defaults == [message |-> None, cached |-> FALSE,
                     processingTime |-> None, page |-> 1, totalPages |-> 1,
                     resultsPerPage |-> None, hasNextPage |-> FALSE]
    IN  [k \in DOMAIN data \cup DOMAIN defaults |->
            IF k \in DOMAIN data THEN data[k] ELSE defaults[k]]

Message(text) == [type |-> "str", text |-> text]

(* hash(blob.name) % 10000000: fixed for a name within one process *)
storage_id(name) == [type |-> "storage_id", name |-> name]

(* lines 94-115: the entry of one blob *)
storage_entry(name, prefix) ==
    LET file_name == str_replace(name, prefix)
    IN  [fileName |-> file_name,
         url |-> blob_url(name),
         emoteId |-> storage_id(name),
         emoteName |-> splitext_root(file_name)]

(* line 97: empty file names and folders are skipped *)
skipped(name, prefix) ==
    LET file_name == str_replace(name, prefix)
    IN  file_name = <<>> \/ file_name[Len(file_name)] = "/"

(* mutant: the check lets the page that starts right after the last item
   through *)
page_exceeds_strictly(start_idx, total_found) == start_idx > total_found

(* line 73: if start_idx >= total_found *)
page_exceeds(start_idx, total_found) == start_idx >= total_found

min(a, b) == IF a < b THEN a ELSE b

(* the body of the endpoint: what it returns for a request *)
storage_listing(store, prefix, page, limit, available, fault, elapsed) ==
    IF ~available
    THEN SearchResponse(
             [success |-> FALSE, totalFound |-> 0, emotes |-> <<>>,
              message |-> Message("Azure Storage is not properly configured or unavailable"),
              processingTime |-> elapsed, page |-> page, totalPages |-> 0,
              resultsPerPage |-> limit, hasNextPage |-> FALSE])
    ELSE
    LET blob_list ==
            sort_by_name(list_blobs_with_prefix(store, prefix, available, fault))
        total_found == Len(blob_list)
        total_pages == (total_found + limit - 1) \div limit
        start_idx == (page - 1) * limit
        end_idx == min(start_idx + limit, total_found)
        page_blobs == SubSeq(blob_list, start_idx + 1, end_idx)
        kept == SelectSeq(page_blobs, LAMBDA name : ~skipped(name, prefix))
    IN  IF blob_list = <<>>
        THEN SearchResponse(
                 [success |-> TRUE, totalFound |-> 0, emotes |-> <<>>,
                  message |-> Message("No emotes found in storage"),
                  processingTime |-> elapsed, page |-> page, totalPages |-> 0,
                  resultsPerPage |-> limit])
        ELSE IF page_exceeds(start_idx, total_found)
        THEN SearchResponse(
                 [success |-> FALSE, totalFound |-> total_found,
                  emotes |-> <<>>,
                  message |-> Message("Page exceeds available pages"),
                  processingTime |-> elapsed, page |-> page,
                  totalPages |-> total_pages, resultsPerPage |-> limit,
                  hasNextPage |-> FALSE])
        ELSE IF kept # <<>> /\ routes_storage_container_client = None
        THEN (* line 101 / 230: None has no attribute get_blob_client; the
                AttributeError is caught at line 130 / 259 *)
             SearchResponse(
                 [success |-> FALSE, totalFound |-> 0, emotes |-> <<>>,
                  message |-> Message("Error accessing Azure Storage: AttributeError"),
                  processingTime |-> elapsed, page |-> page, totalPages |-> 0,
                  resultsPerPage |-> limit, hasNextPage |-> FALSE])
        ELSE SearchResponse(
                 [success |-> TRUE, totalFound |-> total_found,
                  emotes |-> [i \in DOMAIN kept |-> storage_entry(kept[i], prefix)],
                  processingTime |-> elapsed, page |-> page,
                  totalPages |-> total_pages, resultsPerPage |-> limit,
                  hasNextPage |-> page < total_pages])

WebpExtension == <<".", "w", "e", "b", "p">>

(* the name process_emote gives the i-th stored emote of a folder *)
stored_name(fld, i) == blob_name_of(fld, int_str(i) \o WebpExtension)

StoredContent == [data |-> "stored", resized |-> FALSE]

StoredCounts == {0, 1, 2, 3, MaxBlobs}

(* the containers a listing request finds: n items under emote_api, k under
   trending_emotes, and with or without a folder blob "emote_api/" *)
Containers ==
    { [name \in {stored_name(EmoteApiFolder, i) : i \in 1..n}
                  \cup {stored_name(TrendingFolder, i) : i \in 1..k}
                  \cup (IF folder_blob THEN {EmoteApiFolder \o <<"/">>} ELSE {})
          |-> StoredContent] :
        n \in StoredCounts, k \in 0..1, folder_blob \in BOOLEAN }

StorLimits == {1, 2, 20}

StorRequests ==
    [prefix : {EmoteApiFolder \o <<"/">>, TrendingFolder \o <<"/">>},
     page : 1..MaxStorPage, limit : StorLimits,
     available : BOOLEAN, fault : BOOLEAN]

(* a listing request arrives; available: azure_storage_available();
   fault: container_client.list_blobs raises during this request *)
StorReceive ==
    /\ stor_pc = "idle"
    /\ \E r \in StorRequests : stor_request' = r
    /\ stor_pc' = "received"
    /\ UNCHANGED <<stor_response, pipeVars, keyVars, cacheVars, routeVars,
                   clearVars, selVars, moreVars>>

(* get_trending_emotes_from_storage / get_emotes_from_storage *)
StorServe ==
    /\ stor_pc = "received"
    /\ \E elapsed \in ProcessingTimes :
          stor_response' =
              storage_listing(blobs, stor_request.prefix, stor_request.page,
                              stor_request.limit, stor_request.available,
                              stor_request.fault, elapsed)
    /\ stor_pc' = "responded"
    /\ UNCHANGED <<stor_request, pipeVars, keyVars, cacheVars, routeVars,
                   clearVars, selVars, moreVars>>

(* the response is sent *)
StorDone ==
    /\ stor_pc = "responded"
    /\ stor_pc' = "idle"
    /\ stor_request' = NoRequest
    /\ stor_response' = NoResponse
    /\ UNCHANGED <<pipeVars, keyVars, cacheVars, routeVars, clearVars, selVars, moreVars>>

StorNext == StorReceive \/ StorServe \/ StorDone

SelIdle ==
    /\ sel_pc = "idle"
    /\ variants = <<>>
    /\ selected = None

(* the variants of an emote's "images": every format and both kinds, the
   scales around the preferred 4 *)
VariantMimes ==
    {"image/webp", "image/gif", "image/avif", "image/png", "image/jpeg"}

VariantUniverse ==
    [url : {"u"}, mime : VariantMimes, frameCount : {1, 12},
     scale : {1, 2, 4, 8}]

VariantLists == BoundedSeq(VariantUniverse, MaxVariants)

(* images = emote.get("images", []) *)
SelGive ==
    /\ sel_pc = "idle"
    /\ \E images \in VariantLists : variants' = images
    /\ sel_pc' = "given"
    /\ UNCHANGED selected
    /\ UNCHANGED <<pipeVars, keyVars, cacheVars, routeVars,
                   clearVars, storVars, moreVars>>

(* the selection of process_emote, up to "if not best_image: return None" *)
SelRun ==
    /\ sel_pc = "given"
    /\ selected' = select_best_image(variants)
    /\ sel_pc' = "selected"
    /\ UNCHANGED variants
    /\ UNCHANGED <<pipeVars, keyVars, cacheVars, routeVars,
                   clearVars, storVars, moreVars>>

SelDone ==
    /\ sel_pc = "selected"
    /\ sel_pc' = "idle"
    /\ variants' = <<>>
    /\ selected' = None
    /\ UNCHANGED <<pipeVars, keyVars, cacheVars, routeVars,
                   clearVars, storVars, moreVars>>

SelNext == SelGive \/ SelRun \/ SelDone

(* A record processed alone: process_emotes_batch([emote], folder) with the
   names and variants that the naming and the transcoding distinguish *)
NameChars == {"a", "Z", "7", ".", "_", "-", " ", "/", "!"}

RecordNames == BoundedSeq(NameChars, MaxNameLen)

RecordVariants ==
    [url : {"u1"}, mime : VariantMimes, frameCount : {1, 12}, scale : {4}]
        \cup {Img("u5", "image/webp", 12, 4)}

SingleRecords ==
    [id : {"r"}, defaultName : RecordNames,
     images : BoundedSeq(RecordVariants, 1)]

AllFolders == {EmoteApiFolder, TrendingFolder}

SubmitRecord ==
    /\ batch_pc = "idle"
    /\ \E r \in SingleRecords, fld \in AllFolders : SubmitBatch(<<r>>, fld)

RecordNext ==
    \/ SubmitRecord
    \/ \E t \in Tasks : RunTask(t)
    \/ \E t \in Tasks : WriteTask(t)
    \/ ReturnBatch

-----------------------------------------------------------------------------
(* The transcoder, image_processing.py resize_and_pad_webp_bytes.  The
   image is what Image.open has decoded: its frames with their sizes and
   info dictionaries, its own info dictionary; encoded_size is the length
   of the encoder's output at each quality. *)

ImgIdle ==
    /\ img_pc = "idle"
    /\ img_call = None
    /\ img_result = None

(* an int argument, where None may be given instead *)
IntArg(n) == [type |-> "int", value |-> n]

(* dict.get(key, default) *)
info_get(info, key, default) ==
    IF key \in DOMAIN info THEN info[key] ELSE default

abs_diff(a, b) == IF a < b THEN b - a ELSE a - b

at_least_one(n) == IF n < 1 THEN 1 ELSE n

ceil_div(a, b) == IF a % b = 0 THEN a \div b ELSE (a \div b) + 1

(* Image.thumbnail, the width for a kept height y:
   round_aspect(y * aspect, key=lambda n: abs(aspect - n / y)), the nearer
   of floor and ceil, floor first, at least 1; aspect = w / h *)
round_aspect_width(w, h, y) ==
    LET f == (y * w) \div h
        c == ceil_div(y * w, h)
    IN  at_least_one(IF abs_diff(w * y, f * h) <= abs_diff(w * y, c * h)
                     THEN f ELSE c)

(* the height for a kept width x:
   round_aspect(x / aspect, key=lambda n: 0 if n == 0 else abs(aspect - x / n)) *)
round_aspect_height(w, h, x) ==
    LET f == (x * h) \div w
        c == ceil_div(x * h, w)
    IN  at_least_one(IF f = 0 THEN f
                     ELSE IF abs_diff(w * f, x * h) * c
                               <= abs_diff(w * c, x * h) * f
                     THEN f ELSE c)

(* mutant: the frame is not resized *)
thumbnail_keep(w, h, size) == <<w, h>>

(* frame_rgba.thumbnail(size, Image.LANCZOS): the size of the frame after
   the call; a frame that fits is left as it is *)
thumbnail(w, h, size) ==
    IF size[1] >= w /\ size[2] >= h THEN <<w, h>>
    ELSE IF size[1] * h >= size[2] * w
    THEN <<round_aspect_width(w, h, size[2]), size[2]>>
    ELSE <<size[1], round_aspect_height(w, h, size[1])>>

(* Image.new("RGBA", size, (0, 0, 0, 0)) *)
new_canvas(size) ==
    [p \in (0..(size[1] - 1)) \X (0..(size[2] - 1)) |-> "transparent"]

(* canvas.paste(frame_rgba, (x_offset, y_offset), frame_rgba): the pixels
   of the box that lie on the canvas take the frame's content *)
paste(canvas, content, offset) ==
    [p \in DOMAIN canvas |->
        IF /\ offset[1] <= p[1] /\ p[1] < offset[1] + content[1]
           /\ offset[2] <= p[2] /\ p[2] < offset[2] + content[2]
        THEN "content" ELSE canvas[p]]

(* lines 70-78 and 109-115: convert, thumbnail, centre on the canvas *)
pad_frame(frame, size) ==
    LET content == thumbnail(frame.width, frame.height, size)
        x_offset == (size[1] - content[1]) \div 2
        y_offset == (size[2] - content[2]) \div 2
    IN  [size    |-> size,
         content |-> content,
         offset  |-> <<x_offset, y_offset>>,
         pixels  |-> paste(new_canvas(size), content, <<x_offset, y_offset>>)]

animated_qualities == <<80, 70, 60, 50, 40, 35, 30, 25, 20>>
static_qualities == <<95, 90, 85, 80, 70, 60, 50, 40>>

(* _encode_animated_webp *)
encode_animated_webp(frames, durations, loop, quality, encoded_size) ==
    [format |-> "WEBP", frames |-> frames, durations |-> durations,
     loop |-> loop, quality |-> quality, length |-> encoded_size[quality]]

(* _encode_static_webp *)
encode_static_webp(image, quality, encoded_size) ==
    [format |-> "WEBP", frames |-> <<image>>, quality |-> quality,
     length |-> encoded_size[quality]]

(* mutant: the search returns the first quality tried *)
searched_quality_first(qualities, encoded_size, max_bytes) == qualities[1]

(* for quality in [...]: encode; if len(encoded) <= max_bytes: return;
   after the loop: return encoded, the last one encoded *)
RECURSIVE search_from(_, _, _, _)
search_from(qualities, i, encoded_size, max_bytes) ==
    IF encoded_size[qualities[i]] <= max_bytes.value THEN qualities[i]
    ELSE IF i = Len(qualities) THEN qualities[i]
    ELSE search_from(qualities, i + 1, encoded_size, max_bytes)

searched_quality(qualities, encoded_size, max_bytes) ==
    search_from(qualities, 1, encoded_size, max_bytes)

(* mutant: every frame gets the default duration *)
frame_duration_default(frame, image) == 100

(* frame.info.get("duration", image.info.get("duration", 100)) *)
frame_duration(frame, image) ==
    info_get(frame.info, "duration", info_get(image.info, "duration", 100))

resize_and_pad_webp(image, size, max_bytes, encoded_size) ==
    IF image.is_animated /\ image.n_frames > 1
    THEN LET frames == [i \in 1..Len(image.frames) |->
                           pad_frame(image.frames[i], size)]
             durations == [i \in 1..Len(image.frames) |->
                              frame_duration(image.frames[i], image)]
             loop == info_get(image.info, "loop", 0)
         IN  encode_animated_webp(frames, durations, loop,
                 IF max_bytes = None THEN 80
                 ELSE searched_quality(animated_qualities, encoded_size,
                                       max_bytes),
                 encoded_size)
    ELSE encode_static_webp(pad_frame(image.frames[1], size),
             IF max_bytes = None THEN 90
             ELSE searched_quality(static_qualities, encoded_size, max_bytes),
             encoded_size)

Restrict(f, D) == [k \in D |-> f[k]]

(* info dictionaries with or without each of their keys *)
FrameInfos ==
    {Restrict([duration |-> d], D) :
        d \in {40, 70}, D \in SUBSET {"duration"}}

ImageInfos ==
    {Restrict([duration |-> d, loop |-> l], D) :
        d \in {50}, l \in {0, 3}, D \in SUBSET {"duration", "loop"}}

Frame(w, h, info) == [width |-> w, height |-> h, info |-> info]

DecodedImage(frames, info) ==
    [is_animated |-> Len(frames) > 1, n_frames |-> Len(frames),
     frames |-> frames, info |-> info]

range(seq) == {seq[i] : i \in DOMAIN seq}

AllQualities == range(animated_qualities) \cup range(static_qualities)

UnitSizes == [q \in AllQualities |-> 1]

EncodedSizes(qualities) ==
    {[q \in AllQualities |-> IF q \in range(qualities) THEN f[q] ELSE 1] :
        f \in [range(qualities) -> 1..MaxEncoded]}

TranscodeCall(image, size, max_bytes, encoded_size) ==
    [image |-> image, size |-> size, max_bytes |-> max_bytes,
     encoded_size |-> encoded_size]

(* calls with a byte budget, or none: a static and a two-frame image, every
   assignment of lengths to the qualities tried *)
BudgetCallsOf(n, qualities) ==
    {TranscodeCall(DecodedImage([i \in 1..n |-> Frame(1, 1, <<>>)], <<>>),
                   <<1, 1>>, b, e) :
        b \in {IntArg(k) : k \in 0..MaxEncoded} \cup {None},
        e \in EncodedSizes(qualities)}

StaticBudgetCalls == BudgetCallsOf(1, static_qualities)
AnimatedBudgetCalls == BudgetCallsOf(2, animated_qualities)

(* animated images whose frames and whose own info carry a duration and a
   loop count, or not *)
TimedCalls ==
    {TranscodeCall(DecodedImage([i \in 1..Len(infos) |->
                                    Frame(1, 1, infos[i])], info),
                   <<1, 1>>, None, UnitSizes) :
        infos \in UNION {[1..n -> FrameInfos] : n \in 2..MaxFrames},
        info \in ImageInfos}

(* sources and targets of every width and height *)
SizedCalls ==
    {TranscodeCall(DecodedImage([i \in 1..n |-> Frame(w, h, <<>>)], <<>>),
                   <<tw, th>>, None, UnitSizes) :
        n \in {1, 2}, w \in 1..MaxDim, h \in 1..MaxDim,
        tw \in 1..MaxDim, th \in 1..MaxDim}

ImgCall ==
    /\ img_pc = "idle"
    /\ \/ \E call \in StaticBudgetCalls : img_call' = call
       \/ \E call \in AnimatedBudgetCalls : img_call' = call
       \/ \E call \in TimedCalls : img_call' = call
       \/ \E call \in SizedCalls : img_call' = call
    /\ img_pc' = "called"
    /\ UNCHANGED img_result
    /\ UNCHANGED <<pipeVars, keyVars, cacheVars, routeVars,
                   clearVars, storVars, selVars, notImg>>

ImgReturn ==
    /\ img_pc = "called"
    /\ img_result' = resize_and_pad_webp(img_call.image, img_call.size,
                                         img_call.max_bytes,
                                         img_call.encoded_size)
    /\ img_pc' = "returned"
    /\ UNCHANGED img_call
    /\ UNCHANGED <<pipeVars, keyVars, cacheVars, routeVars,
                   clearVars, storVars, selVars, notImg>>

ImgDone ==
    /\ img_pc = "returned"
    /\ img_pc' = "idle"
    /\ img_call' = None
    /\ img_result' = None
    /\ UNCHANGED <<pipeVars, keyVars, cacheVars, routeVars,
                   clearVars, storVars, selVars, notImg>>

ImgNext == ImgCall \/ ImgReturn \/ ImgDone

-----------------------------------------------------------------------------
(* The upstream fetch functions, seventv.py fetch_7tv_emotes_api and
   fetch_7tv_trending_emotes, from requests.post to the return *)

FetchIdle ==
    /\ fetch_pc = "idle"
    /\ fetch_call = None
    /\ fetch_result = None

(* Python values of a decoded JSON body *)
PyList(items) == [type |-> "list", items |-> items]
PyDict(items) == [type |-> "dict", items |-> items]
PyStr == [type |-> "str"]
AttributeError == [type |-> "AttributeError"]
TypeError == [type |-> "TypeError"]
ValueError == [type |-> "ValueError"]

(* value.get(key, default): only a dict has get *)
py_get(value, key, default) ==
    IF value.type \in {"AttributeError", "TypeError", "ValueError"} THEN value
    ELSE IF value.type # "dict" THEN AttributeError
    ELSE IF key \in DOMAIN value.items THEN value.items[key]
    ELSE default

(* the chain of .get calls down the keys, each with {} as its default and
   the last with [] *)
get_path(value, keys) ==
    LET F[i \in 0..Len(keys)] ==
            IF i = 0 THEN value
            ELSE py_get(F[i-1], keys[i],
                        IF i = Len(keys) THEN PyList(<<>>) ELSE PyDict(<<>>))
    IN  F[Len(keys)]

(* "errors" in data: key test on a dict, element test on a list, substring
   test on a str, TypeError on None *)
has_errors(data) ==
    IF data.type = "dict"
    THEN [type |-> "bool", value |-> "errors" \in DOMAIN data.items]
    ELSE IF data.type = "None" THEN TypeError
    ELSE [type |-> "bool", value |-> FALSE]

SearchPath == <<"data", "emotes", "search", "items">>
TrendingPath == <<"data", "emotes", "items">>

(* except Exception as e: log, return [] *)
fetch_except(exc) == PyList(<<>>)

(* response.json(): the decoded body, or ValueError *)
response_json(body) == IF body.type = "not_json" THEN ValueError ELSE body

IsException(value) ==
    value.type \in {"AttributeError", "TypeError", "ValueError"}

(* lines 79-89 *)
fetch_7tv_emotes_api(reply) ==
    IF reply.kind = "exception" THEN fetch_except(reply)
    ELSE IF reply.status_code = 200
    THEN LET items == get_path(response_json(reply.body), SearchPath)
         IN  IF IsException(items) THEN fetch_except(items) ELSE items
    ELSE PyList(<<>>)

(* lines 138-152 *)
fetch_7tv_trending_emotes(reply) ==
    IF reply.kind = "exception" THEN fetch_except(reply)
    ELSE IF reply.status_code = 200
    THEN LET data == response_json(reply.body)
             errors == IF IsException(data) THEN data ELSE has_errors(data)
             items == get_path(data, TrendingPath)
         IN  IF IsException(errors) THEN fetch_except(errors)
             ELSE IF errors.value THEN PyList(<<>>)
             ELSE IF IsException(items) THEN fetch_except(items)
             ELSE items
    ELSE PyList(<<>>)

(* the values an upstream body may hold under the last key of the path,
   and the bodies built around them: at each level the key is absent or
   holds null, a list or the next dict; the top level has an errors field
   or not *)
UpstreamItems ==
    {PyList(items) : items \in BoundedSeq({[id |-> "e1"]}, MaxItems)}

LeafValues == UpstreamItems \cup {None, PyStr}

RECURSIVE Nested(_, _)
Nested(keys, i) ==
    LET below == IF i = Len(keys) THEN LeafValues
                 ELSE Nested(keys, i + 1) \cup {None, PyList(<<>>)}
    IN  {PyDict(<<>>)} \cup {PyDict([k \in {keys[i]} |-> v]) : v \in below}

WithErrors(body) ==
    PyDict([k \in DOMAIN body.items \cup {"errors"} |->
               IF k = "errors" THEN PyList(<<>>) ELSE body.items[k]])

Bodies(keys) ==
    Nested(keys, 1) \cup {WithErrors(b) : b \in Nested(keys, 1)}
        \cup {None, PyList(<<>>), PyStr, [type |-> "not_json"]}

Replies(keys) ==
    {[kind |-> "exception", type |-> "ConnectionError"]}
        \cup {[kind |-> "response", status_code |-> s, body |-> None] :
                 s \in {404, 500}}
        \cup {[kind |-> "response", status_code |-> 200, body |-> b] :
                 b \in Bodies(keys)}

FetchCalls ==
    {[function |-> "search", reply |-> r] : r \in Replies(SearchPath)}
        \cup {[function |-> "trending", reply |-> r] :
                 r \in Replies(TrendingPath)}

FetchCall ==
    /\ fetch_pc = "idle"
    /\ \E call \in FetchCalls : fetch_call' = call
    /\ fetch_pc' = "called"
    /\ UNCHANGED fetch_result
    /\ UNCHANGED <<pipeVars, keyVars, cacheVars, routeVars,
                   clearVars, storVars, selVars, notFetch>>

FetchReturn ==
    /\ fetch_pc = "called"
    /\ fetch_result' = IF fetch_call.function = "search"
                       THEN fetch_7tv_emotes_api(fetch_call.reply)
                       ELSE fetch_7tv_trending_emotes(fetch_call.reply)
    /\ fetch_pc' = "returned"
    /\ UNCHANGED fetch_call
    /\ UNCHANGED <<pipeVars, keyVars, cacheVars, routeVars,
                   clearVars, storVars, selVars, notFetch>>

FetchDone ==
    /\ fetch_pc = "returned"
    /\ fetch_pc' = "idle"
    /\ fetch_call' = None
    /\ fetch_result' = None
    /\ UNCHANGED <<pipeVars, keyVars, cacheVars, routeVars,
                   clearVars, storVars, selVars, notFetch>>

FetchNext == FetchCall \/ FetchReturn \/ FetchDone

-----------------------------------------------------------------------------
(* The storage handles, services/storage.py lines 8-38: the availability
   check that each worker of a batch makes at the start of
   upload_to_azure_blob, and the lazy initialisation behind it *)

NoWrites == [blob_service_client |-> {}, container_client |-> {}]

HandleIdle ==
    /\ handle_pc = <<>>
    /\ blob_service_client = None
    /\ container_client = None
    /\ handle_writes = NoWrites
    /\ azure_configured = TRUE

(* BlobServiceClient.from_connection_string(...): a new client object *)
from_connection_string(w) == [type |-> "BlobServiceClient", by |-> w]

(* blob_service_client.get_container_client(container_name) *)
get_container_client(service) == [type |-> "ContainerClient", of |-> service]

Workers == DOMAIN handle_pc

(* the handles at the start of a batch: not yet initialised, or set by an
   earlier call; the workers of the batch are about to upload *)
HandleInitial ==
    /\ \E n \in 2..MaxUploaders : handle_pc = [w \in 1..n |-> "start"]
    /\ \/ blob_service_client = None /\ container_client = None
       \/ /\ blob_service_client = from_connection_string(0)
          /\ container_client = get_container_client(from_connection_string(0))
    /\ handle_writes = NoWrites
    /\ azure_configured \in BOOLEAN

(* azure_storage_available, lines 34-38: the test of the two globals *)
HandleCheck(w) ==
    /\ handle_pc[w] = "start"
    /\ handle_pc' = [handle_pc EXCEPT ![w] =
                        IF blob_service_client = None \/ container_client = None
                        THEN "init" ELSE "ready"]
    /\ UNCHANGED <<blob_service_client, container_client, handle_writes,
                   azure_configured>>
    /\ UNCHANGED <<pipeVars, keyVars, cacheVars, routeVars,
                   clearVars, storVars, selVars, notHandle>>

(* init_azure_storage, lines 16-24: the configuration test and the
   assignment of blob_service_client; the constructor may raise *)
HandleCreateService(w) ==
    /\ handle_pc[w] = "init"
    /\ \E raises \in BOOLEAN :
          IF ~azure_configured \/ raises
          THEN /\ handle_pc' = [handle_pc EXCEPT ![w] = "unavailable"]
               /\ UNCHANGED <<blob_service_client, handle_writes>>
          ELSE /\ blob_service_client' = from_connection_string(w)
               /\ handle_writes' =
                     [handle_writes EXCEPT !.blob_service_client = @ \cup {w}]
               /\ handle_pc' = [handle_pc EXCEPT ![w] = "service"]
    /\ UNCHANGED <<container_client, azure_configured>>
    /\ UNCHANGED <<pipeVars, keyVars, cacheVars, routeVars,
                   clearVars, storVars, selVars, notHandle>>

(* line 25: container_client is assigned from the global
   blob_service_client as it is now *)
HandleCreateContainer(w) ==
    /\ handle_pc[w] = "service"
    /\ container_client' = get_container_client(blob_service_client)
    /\ handle_writes' =
          [handle_writes EXCEPT !.container_client = @ \cup {w}]
    /\ handle_pc' = [handle_pc EXCEPT ![w] = "ready"]
    /\ UNCHANGED <<blob_service_client, azure_configured>>
    /\ UNCHANGED <<pipeVars, keyVars, cacheVars, routeVars,
                   clearVars, storVars, selVars, notHandle>>

HandleNext ==
    \/ \E w \in Workers : HandleCheck(w)
    \/ \E w \in Workers : HandleCreateService(w)
    \/ \E w \in Workers : HandleCreateContainer(w)

-----------------------------------------------------------------------------
(* The trending request flow on a cache miss, routes/trending.py lines
   28-85 with the functions of services/seventv.py that it calls *)

TrendIdle ==
    /\ trend_pc = "idle"
    /\ trend_request = None
    /\ trend_local = None
    /\ trend_response = None

(* what a plain function returns, and what an async function returns *)
Returned(value) == [type |-> "value", value |-> value]
Coroutine(value) == [type |-> "coroutine", value |-> value]

(* def fetch_7tv_trending_emotes(period="trending_weekly", limit=20,
   animated_only=False) *)
fetch_trending_parameters == <<"period", "limit", "animated_only">>

(* a call with positional arguments: more arguments than parameters is a
   TypeError *)
call_positional(parameters, args, result) ==
    IF Len(args) > Len(parameters) THEN TypeError ELSE result

(* await value: only an awaitable can be awaited *)
await(value) ==
    IF value.type = "TypeError" THEN value
    ELSE IF value.type = "coroutine" THEN Returned(value.value)
    ELSE TypeError

(* images = emote.get("images", []) *)
emote_images(emote) ==
    IF "images" \in DOMAIN emote THEN emote.images ELSE <<>>

(* process_emote when every fetch and store operation succeeds: the entry
   of the record, or None when the selection finds no variant *)
process_emote_ok(emote, fld) ==
    LET best == select_best_image(emote_images(emote))
    IN  IF best = None THEN None
        ELSE [type      |-> "entry",
              fileName  |-> safe_name(info_get(emote, "defaultName",
                                               <<"e","m","o","t","e">>))
                                \o extension(best.mime),
              emoteId   |-> emote.id,
              animated  |-> best.frameCount > 1]

(* process_emotes_batch: a plain function, its result is a list *)
process_emotes_batch_ok(page_emotes, fld) ==
    Returned(truthy_results([i \in 1..Len(page_emotes) |->
                                process_emote_ok(page_emotes[i], fld)]))

(* trending_emotes[start_idx:end_idx] *)
slice(seq, start_idx, end_idx) ==
    IF end_idx <= start_idx THEN <<>>
    ELSE SubSeq(seq, start_idx + 1, min(end_idx, Len(seq)))

(* the most the endpoint asks the directory for *)
fetch_cap == 300

(* lines 30-32: fetch_limit = page * limit, at most 300 *)
fetch_limit_of(page, limit) ==
    IF page * limit > fetch_cap THEN fetch_cap ELSE page * limit

(* lines 30-85: the response of the endpoint for a request on a cache miss;
   upstream is what the directory answers to the query; the endpoint takes
   the list as it comes *)
trending_emotes(request, upstream, elapsed) ==
    LET limit == request.limit
        page == request.page
        fetch_limit == fetch_limit_of(page, limit)
        fetched == await(call_positional(fetch_trending_parameters,
                       <<request.period, fetch_limit, request.animated_only,
                         "session">>,
                       Returned(upstream)))
    IN  IF fetched.type = "TypeError" THEN Unhandled("TypeError")
        ELSE IF fetched.value = <<>>
        THEN SearchResponse(
                 [success |-> TRUE, totalFound |-> 0, emotes |-> <<>>,
                  message |-> Message("No trending emotes found for period"),
                  processingTime |-> elapsed, page |-> page,
                  totalPages |-> 0, resultsPerPage |-> limit])
        ELSE LET total_found == Len(fetched.value)
                 total_pages == (total_found + limit - 1) \div limit
                 start_idx == (page - 1) * limit
                 end_idx == min(start_idx + limit, total_found)
                 page_emotes == slice(fetched.value, start_idx, end_idx)
                 processed == await(process_emotes_batch_ok(page_emotes,
                                                            TrendingFolder))
             IN  IF processed.type = "TypeError" THEN Unhandled("TypeError")
                 ELSE SearchResponse(
                          [success |-> TRUE, totalFound |-> total_found,
                           emotes |-> processed.value,
                           processingTime |-> elapsed, page |-> page,
                           totalPages |-> total_pages,
                           resultsPerPage |-> limit,
                           hasNextPage |-> page < total_pages])

(* the records of the trending query: id, name, animated, host.files *)
TrendingFile(name, format) ==
    [name |-> name, format |-> format, width |-> 128, height |-> 128]

TrendingRecords ==
    { [id |-> "t1", name |-> <<"K","e","k","W">>, animated |-> TRUE,
       host |-> [url |-> "h1",
                 files |-> <<TrendingFile("4x.webp", "WEBP"),
                             TrendingFile("4x.avif", "AVIF")>>]],
      [id |-> "t2", name |-> <<"O","k">>, animated |-> FALSE,
       host |-> [url |-> "h2",
                 files |-> <<TrendingFile("2x.png", "PNG")>>]] }

TrendLimits == {1, 2, 100}

TrendPages == 1..MaxTrendPage

TrendRequests ==
    [period : TrendingPeriods, limit : TrendLimits, page : TrendPages,
     animated_only : BOOLEAN,
     upstream : BoundedSeq(TrendingRecords, MaxItems)]

TrendReceive ==
    /\ trend_pc = "idle"
    /\ \E r \in TrendRequests : trend_request' = r
    /\ trend_local' =
          [fetch_limit |-> None, cache_key |-> None, cached_data |-> None]
    /\ trend_pc' = "received"
    /\ UNCHANGED <<trend_response, redis>>
    /\ UNCHANGED <<now, last_put, got>>
    /\ UNCHANGED <<pipeVars, keyVars, routeVars,
                   clearVars, storVars, selVars, notTrend>>

(* the handler from the cache lookup to its return or its exception: the
   lookup on the store, the flow on a miss and the save of its response *)
TrendServe ==
    /\ trend_pc = "received"
    /\ LET key == get_trending_cache_key(trend_request.period,
                                         trend_request.limit,
                                         trend_request.animated_only,
                                         trend_request.page)
           cached_data == get_from_cache(redis, key, now)
           answer == trending_emotes(trend_request, trend_request.upstream, 3)
       IN  /\ trend_local' =
                 [fetch_limit |-> IntArg(fetch_limit_of(trend_request.page,
                                                        trend_request.limit)),
                  cache_key |-> key, cached_data |-> cached_data]
           /\ IF truthy(cached_data)
              THEN /\ trend_response' = SearchResponse(hit_response(cached_data, 3))
                   /\ UNCHANGED redis
              ELSE /\ trend_response' = answer
                   /\ redis' = IF answer.status = 500 THEN redis
                               ELSE save_to_cache(redis, key,
                                        [success |-> answer.success,
                                         totalFound |-> answer.totalFound,
                                         emotes |-> answer.emotes],
                                        TRENDING_CACHE_TTL, now)
    /\ trend_pc' = "responded"
    /\ UNCHANGED trend_request
    /\ UNCHANGED <<now, last_put, got>>
    /\ UNCHANGED <<pipeVars, keyVars, routeVars,
                   clearVars, storVars, selVars, notTrend>>

TrendDone ==
    /\ trend_pc = "responded"
    /\ trend_pc' = "idle"
    /\ trend_request' = None
    /\ trend_local' = None
    /\ trend_response' = None
    /\ UNCHANGED <<pipeVars, keyVars, cacheVars, routeVars,
                   clearVars, storVars, selVars, notTrend>>

TrendNext == TrendReceive \/ TrendServe \/ TrendDone

-----------------------------------------------------------------------------
(* The endpoints of main.py, lines 330-391 (search) and 393-476 (trending),
   with its process_emote (lines 263-325).  The handlers are coroutines that
   never await: a request runs from its first line to its return before the
   next one starts. *)

RECURSIVE main_best_from(_, _, _)
(* lines 280-284: the widest WEBP or GIF file, the first of the widest *)
main_best_from(files, i, best_file) ==
    IF i > Len(files) THEN best_file
    ELSE IF /\ files[i].format \in {"WEBP", "GIF"}
            /\ (best_file = None \/ files[i].width > best_file.width)
         THEN main_best_from(files, i + 1, files[i])
         ELSE main_best_from(files, i + 1, best_file)

(* lines 280-291: the fallback is the first file; None without files *)
main_best_file(files) ==
    LET best_file == main_best_from(files, 1, None)
    IN  IF best_file = None /\ files # <<>> THEN files[1] ELSE best_file

(* format_map.get(best_file["format"], ".png") *)
main_extension(format) ==
    CASE format = "WEBP" -> <<".","w","e","b","p">>
      [] format = "GIF"  -> <<".","g","i","f">>
      [] format = "AVIF" -> <<".","a","v","i","f">>
      [] format = "PNG"  -> <<".","p","n","g">>
      [] OTHER           -> <<".","p","n","g">>

main_file_name(emote) ==
    safe_name(emote.name)
        \o main_extension(main_best_file(emote.host.files).format)

(* url = f"{base_url}/{best_file['name']}" *)
main_url(emote) ==
    <<emote.host.url, "/", main_best_file(emote.host.files).name>>

(* lines 263-325: the entry of a record, or None when it has no file or
   when its download or its store operation failed *)
main_process_emote(emote, fld, failed) ==
    IF main_best_file(emote.host.files) = None \/ failed THEN None
    ELSE [type      |-> "entry",
          fileName  |-> main_file_name(emote),
          url       |-> blob_url(blob_name_of(fld, main_file_name(emote))),
          emoteId   |-> emote.id,
          emoteName |-> emote.name]

(* executor.map over the records and the filter of lines 377-378, 455-456;
   failed holds the positions whose download or store operation failed *)
main_process_all(records, fld, failed) ==
    truthy_results([i \in 1..Len(records) |->
                       main_process_emote(records[i], fld, i \in failed)])

(* upload_to_azure_blob, lines 125-144, for the records that succeeded: a
   name that is absent gets the downloaded bytes *)
main_uploads(store, records, fld, failed) ==
    LET ok == {i \in 1..Len(records) :
                  main_process_emote(records[i], fld, i \in failed) # None}
        name_of(i) == blob_name_of(fld, main_file_name(records[i]))
        names == {name_of(i) : i \in ok}
    IN  [n \in DOMAIN store \cup names |->
            IF n \in DOMAIN store THEN store[n]
            ELSE LET first == CHOOSE i \in ok :
                                 /\ name_of(i) = n
                                 /\ \A j \in ok : name_of(j) = n => i <= j
                 IN  response_content(main_url(records[first]))]

(* mutant: totalFound counts the processed emotes *)
main_search_data_processed_count(request, emotes_found, failed, elapsed) ==
    LET processed == main_process_all(emotes_found, EmoteApiFolder, failed)
    IN  [success |-> TRUE, totalFound |-> Len(processed),
         emotes |-> processed, processingTime |-> elapsed]

(* search_emotes lines 363-384: the response dict of a miss *)
main_search_data(request, emotes_found, failed, elapsed) ==
    IF emotes_found = <<>>
    THEN [success |-> TRUE, totalFound |-> 0, emotes |-> <<>>,
          message |-> "No emotes found for the given query",
          processingTime |-> elapsed]
    ELSE [success |-> TRUE, totalFound |-> Len(emotes_found),
          emotes |-> main_process_all(emotes_found, EmoteApiFolder, failed),
          processingTime |-> elapsed]

(* trending_emotes[start_idx:end_idx] of lines 449-451 *)
main_page_emotes(request, fetched) ==
    LET start_idx == (request.page - 1) * request.limit
    IN  slice(fetched, start_idx, min(start_idx + request.limit, Len(fetched)))

(* mutant: the quotient plus one *)
main_total_pages_plus_one(total_found, limit) == total_found \div limit + 1

(* line 446: total_pages = (total_found + limit - 1) // limit *)
main_total_pages(total_found, limit) == (total_found + limit - 1) \div limit

(* trending_emotes lines 431-468: the response dict of a miss *)
main_trending_data(request, fetched, failed, elapsed) ==
    IF fetched = <<>>
    THEN [success |-> TRUE, totalFound |-> 0, emotes |-> <<>>,
          message |-> "No trending emotes found for period",
          processingTime |-> elapsed, page |-> request.page,
          totalPages |-> 0]
    ELSE LET total_found == Len(fetched)
             total_pages == main_total_pages(total_found, request.limit)
         IN  [success |-> TRUE, totalFound |-> total_found,
              emotes |-> main_process_all(main_page_emotes(request, fetched),
                                          TrendingFolder, failed),
              processingTime |-> elapsed, page |-> request.page,
              totalPages |-> total_pages,
              resultsPerPage |-> request.limit,
              hasNextPage |-> request.page < total_pages]

MainQueries == {<<"a">>}

MainRequests ==
    [kind : {"search"}, text : MainQueries, limit : {1, 2},
     animated_only : {FALSE}, page : {1}]
    \cup
    [kind : {"trending"}, text : {TrendingDaily.text}, limit : TrendLimits,
     animated_only : {FALSE}, page : TrendPages]

(* what the directory answers to a query; the fetch functions turn every
   failure into the empty list *)
MainReplies == BoundedSeq(TrendingRecords, MaxItems)

(* a request arrives: the first one of a run, or one more for a key that
   the cache has held *)
MainReceive ==
    /\ route_pc = "idle"
    /\ \E r \in MainRequests :
          /\ redis = {} \/ \E e \in redis : e.key = request_key("main", r)
          /\ route_request' = r
    /\ route_pc' = "received"
    /\ UNCHANGED <<route_local, response, pipeVars, keyVars, cacheVars, restVars>>

(* the handler on a hit: the cached dict with processingTime and cached *)
MainHit ==
    /\ route_pc = "received"
    /\ LET key == request_key("main", route_request)
           cached_data == get_from_cache(redis, key, now)
       IN  /\ truthy(cached_data)
           /\ route_local' = [cache_key |-> key, cached_data |-> cached_data]
           /\ \E elapsed \in ProcessingTimes :
                 response' =
                     [status |-> 200,
                      body |-> SearchResponse(hit_response(cached_data, elapsed))]
    /\ route_pc' = "responded"
    /\ UNCHANGED <<route_request, pipeVars, keyVars, cacheVars, restVars>>

(* the handler on a miss: the fetch, the records' pipelines, the save and
   the response *)
MainMiss ==
    /\ route_pc = "received"
    /\ LET key == request_key("main", route_request)
           cached_data == get_from_cache(redis, key, now)
           trending == route_request.kind = "trending"
       IN  /\ ~truthy(cached_data)
           /\ \E fetched \in MainReplies, elapsed \in ProcessingTimes :
               LET records == IF trending
                              THEN main_page_emotes(route_request, fetched)
                              ELSE fetched
                   fld == IF trending THEN TrendingFolder ELSE EmoteApiFolder
               IN  \E failed \in SUBSET (1..Len(records)) :
                 LET data == IF trending
                             THEN main_trending_data(route_request, fetched,
                                                     failed, elapsed)
                             ELSE main_search_data(route_request, fetched,
                                                   failed, elapsed)
                 IN  /\ route_local' =
                            [cache_key |-> key, cached_data |-> cached_data,
                             fetch_limit |->
                                 IF trending
                                 THEN fetch_limit_of(route_request.page,
                                                     route_request.limit)
                                 ELSE route_request.limit,
                             fetched |-> fetched,
                             failed |-> failed,
                             records |-> records]
                     /\ blobs' = main_uploads(blobs, records, fld, failed)
                     /\ redis' = save_to_cache(redis, key, data,
                                               ttl_of(route_request), now)
                     /\ response' = [status |-> 200,
                                     body |-> SearchResponse(data)]
    /\ route_pc' = "responded"
    /\ UNCHANGED <<route_request, now, last_put, got>>
    /\ UNCHANGED <<emotes, folder, batch_pc, task_pc, task_local, results,
                   processed_emotes, outcome>>
    /\ UNCHANGED <<keyVars, restVars>>

MainNext == MainReceive \/ MainHit \/ MainMiss \/ RouteDone \/ Tick

-----------------------------------------------------------------------------
(* Specifications *)

Init ==
    /\ PipeInit /\ KeyIdle /\ CacheInit /\ RouteIdle
    /\ ClearIdle /\ StorIdle /\ SelIdle /\ ImgIdle
    /\ FetchIdle /\ HandleIdle /\ TrendIdle

Spec == Init /\ [][Next]_vars

KeySpec == Init /\ [][KeyNext]_vars

CacheSpec == Init /\ [][CacheNext]_vars

RouteSpec == Init /\ [][RouteNext]_vars

ClearSpec == Init /\ [][ClearNext]_vars

(* the container holds what earlier ingestions stored *)
StorInit ==
    /\ blobs \in Containers
    /\ emotes = <<>> /\ folder = EmoteApiFolder /\ batch_pc = "idle"
    /\ task_pc = <<>> /\ task_local = <<>> /\ results = <<>>
    /\ processed_emotes = <<>> /\ outcome = <<>>
    /\ KeyIdle /\ CacheInit /\ RouteIdle
    /\ ClearIdle /\ StorIdle /\ SelIdle /\ ImgIdle
    /\ FetchIdle /\ HandleIdle /\ TrendIdle

StorageSpec == StorInit /\ [][StorNext]_vars

SelectSpec == Init /\ [][SelNext]_vars

RecordSpec == Init /\ [][RecordNext]_vars

TranscodeSpec == Init /\ [][ImgNext]_vars

FetchSpec == Init /\ [][FetchNext]_vars

TrendSpec == Init /\ [][TrendNext]_vars

MainSpec == Init /\ [][MainNext]_vars

(* a batch whose workers reach upload_to_azure_blob *)
HandleInit ==
    /\ PipeInit /\ KeyIdle /\ CacheInit /\ RouteIdle
    /\ ClearIdle /\ StorIdle /\ SelIdle /\ ImgIdle
    /\ FetchIdle /\ HandleInitial /\ TrendIdle

HandleSpec == HandleInit /\ [][HandleNext]_vars

(* a step of the batch in progress: of one of its workers, or its return *)
BatchStep ==
    \/ \E t \in Tasks : StartTask(t)
    \/ \E t \in Tasks : RunTask(t)
    \/ \E t \in Tasks : WriteTask(t)
    \/ ReturnBatch

(* Worker threads are scheduled by the operating system and every step of a
   record's pipeline terminates: while the batch can take a step, one is
   eventually taken *)
FairSpec == Spec /\ WF_vars(BatchStep)

-----------------------------------------------------------------------------
(* Properties *)

Succeeded(t) == outcome[t] \in {"stored", "existing"}
Failed(t) == outcome[t] \in {"select_none", "fetch_failed", "store_error",
                             "conflict"}

(* the entry process_emote builds for record t once the store has answered *)
ExpectedEntry(t) ==
    LET best == select_best_image(emotes[t].images)
    IN  emote_entry(emotes[t], best,
                    blob_url(blob_name_of(folder, file_name_of(emotes[t], best))))

Occurrences(seq, x) == Cardinality({i \in DOMAIN seq : seq[i] = x})

(* C1: a record's failure (no variant selected, download status other than
   200 or a download exception, store error) never raises out of
   process_emotes_batch and never keeps a sibling from being processed: the
   batch never ends by an exception, and the list it returns holds exactly
   one entry for each record whose selection, download and store succeeded
   and none for the others. *)
C1_PartialFailure ==
    /\ batch_pc # "raised"
    /\ batch_pc = "returned" =>
          /\ \A t \in Tasks : Succeeded(t) \/ Failed(t)
          /\ Len(processed_emotes) = Cardinality({t \in Tasks : Succeeded(t)})
          /\ \A t \in Tasks : Succeeded(t) =>
                Occurrences(processed_emotes, ExpectedEntry(t)) =
                Cardinality({u \in Tasks : Succeeded(u)
                                /\ ExpectedEntry(u) = ExpectedEntry(t)})

(* one failing download and two successes give exactly two entries *)
C1_Witness ==
    /\ batch_pc = "returned"
    /\ Len(emotes) = 3
    /\ Cardinality({t \in Tasks : outcome[t] = "fetch_failed"}) = 1
    /\ Cardinality({t \in Tasks : Succeeded(t)}) = 2
    /\ Len(processed_emotes) = 2

DecodeFailed(t) ==
    task_local[t].type = "locals" /\ task_local[t].processing_error

(* C2 as stated: a record whose fetched bytes the transcoder cannot decode
   is excluded from the batch result and nothing is stored for it. *)
C2_DecodeErrorExcluded ==
    \A t \in Tasks :
        (DecodeFailed(t) /\ task_pc[t] = "done") =>
            results[t] = None /\ outcome[t] # "stored"

(* C2 amended: a record whose fetched bytes the transcoder cannot decode
   goes on with the fetched bytes unmodified: they are what is handed to the
   store (and what the blob holds when this record wrote it), and the record
   is in the result exactly when the store returned a reference. *)
C2_DecodeErrorFallsBack ==
    \A t \in Tasks : DecodeFailed(t) =>
        LET loc == task_local[t] IN
        /\ loc.content = response_content(loc.best_image.url)
        /\ outcome[t] \notin {"select_none", "fetch_failed"}
        /\ outcome[t] = "stored" => blobs[loc.blob_name] = loc.content
        /\ task_pc[t] = "done" =>
              IF Succeeded(t) THEN results[t] = ExpectedEntry(t)
              ELSE results[t] = None
        /\ (batch_pc = "returned" /\ Succeeded(t)) =>
              Occurrences(processed_emotes, ExpectedEntry(t)) >= 1

(* the undecoded bytes were stored and the record is in the result, next to
   a sibling *)
C2_Witness ==
    /\ batch_pc = "returned"
    /\ \E t, u \in Tasks :
          /\ t # u
          /\ DecodeFailed(t)
          /\ outcome[t] = "stored"
          /\ blobs[task_local[t].blob_name] = task_local[t].content
          /\ Occurrences(processed_emotes, ExpectedEntry(t)) >= 1
          /\ outcome[u] # "pending"

HasVariant(t) == select_best_image(emotes[t].images) # None

TaskBlobName(t) ==
    blob_name_of(folder,
                 file_name_of(emotes[t], select_best_image(emotes[t].images)))

(* C3: an upload_to_azure_blob call that begins after an earlier call for
   the same blob name has returned a reference (whatever bytes either call
   carries) writes nothing, leaves the store as it is, does not raise and
   returns the earlier call's reference, unless the store itself fails. *)
C3_PutIfAbsentIdempotent ==
    [][\A i, j \in Tasks :
          ( /\ batch_pc = "running" /\ batch_pc' = "running"
            /\ i # j
            /\ task_pc[i] = "done" /\ results[i].type = "entry"
            /\ task_pc[j] = "running" /\ task_pc'[j] # "running"
            /\ HasVariant(j)
            /\ TaskBlobName(i) = TaskBlobName(j)
            /\ outcome'[j] \notin {"fetch_failed", "store_error"} )
          => ( /\ task_pc'[j] = "done"
               /\ results'[j].type = "entry"
               /\ results'[j].url = results[i].url
               /\ blobs' = blobs )]_vars

(* two calls in sequence, same name, different bytes: the first wrote, the
   second returned the same reference and the blob holds the first bytes *)
C3_Witness ==
    \E i, j \in Tasks :
        /\ i # j
        /\ outcome[i] = "stored" /\ outcome[j] = "existing"
        /\ task_local[i].blob_name = task_local[j].blob_name
        /\ task_local[i].content # task_local[j].content
        /\ results[i].url = results[j].url
        /\ blobs[task_local[i].blob_name] = task_local[i].content

(* C4: a blob name is written at most once: whatever the interleaving of
   uploads, a name that holds content keeps that content in every step. *)
C4_WrittenAtMostOnce ==
    [][\A n \in DOMAIN blobs : n \in DOMAIN blobs' /\ blobs'[n] = blobs[n]]_vars

(* a second writer of the name, with other bytes, has tried: the content is
   still the first writer's *)
C4_Witness ==
    \E i, j \in Tasks :
        /\ outcome[i] = "stored" /\ outcome[j] = "conflict"
        /\ task_local[i].blob_name = task_local[j].blob_name
        /\ task_local[i].content # task_local[j].content
        /\ blobs[task_local[i].blob_name] = task_local[i].content

(* two records of one name that both passed the existence check before
   either wrote: each ended by writing or by ResourceExistsError *)
Raced(i, j) ==
    /\ i # j
    /\ outcome[i] \in {"stored", "conflict"}
    /\ outcome[j] \in {"stored", "conflict"}
    /\ task_local[i].blob_name = task_local[j].blob_name

(* C5: when two ingestions of one absent blob name both pass the existence
   check before either writes, both writes are performed and both
   ingestions complete with a reference. *)
C5_RaceBothComplete ==
    \A i, j \in Tasks : Raced(i, j) =>
        /\ outcome[i] = "stored" /\ outcome[j] = "stored"
        /\ results[i].type = "entry" /\ results[j].type = "entry"

(* C6: at every moment at most max_workers records are in process_emote. *)
C6_BoundedWorkers == Cardinality(in_progress) <= max_workers

(* the pool is full and a record waits in the queue *)
C6_Witness ==
    /\ Cardinality(in_progress) = max_workers
    /\ \E t \in Tasks : task_pc[t] = "queued"

(* C7: process_emotes_batch returns only when every record has produced an
   entry or been discarded, delivers nothing while a record is still being
   processed, and a batch that has been entered eventually returns. *)
C7_BatchCompletes ==
    /\ [](batch_pc \in {"returned", "raised"} =>
            \A t \in Tasks : task_pc[t] = "done" /\ outcome[t] # "pending")
    /\ [](batch_pc = "running" => processed_emotes = <<>>)
    /\ (batch_pc = "running") ~> (batch_pc = "returned")

(* a batch of three returned with a failure among its records *)
C7_Witness ==
    /\ batch_pc = "returned"
    /\ Len(emotes) = 3
    /\ \A t \in Tasks : task_pc[t] = "done"
    /\ \E t \in Tasks : Failed(t)
    /\ \E t \in Tasks : Succeeded(t)

(* C8: the cache key determines the request: the key built for a request
   equals the key of another request of the same endpoints exactly when the
   two agree on kind, query text (or trending period), limit, animated-only
   flag and page; so two pages of one query never share a key, and a search
   key never equals a trending key. *)
C8_KeyDeterminesRequest ==
    key_pc = "key" =>
        \A r \in Requests(key_variant) :
            (request_key(key_variant, r) = cache_key) <=> (r = key_request)

(* a key was built for page 2 of a search whose text holds a colon *)
C8_Witness ==
    /\ key_pc = "key"
    /\ key_variant = "app"
    /\ key_request.kind = "search"
    /\ key_request.page = 2
    /\ \E i \in DOMAIN key_request.text : key_request.text[i] = ":"
    /\ cache_key = get_cache_key(key_request.text, key_request.limit,
                                key_request.animated_only, 2)

(* the ttl the endpoint of a request saves with *)
LiveEntries(k) == {e \in redis : e.key = k /\ live(e, now)}

(* C9: cache-aside.  When the endpoint has answered a request whose key had a
   live entry, the response is the cached payload with cached = true (and a
   fresh processingTime), and no ingestion was started; when the key had no
   live entry, the response is a computed result, and the cache holds it
   under the request's key with the ttl of the request's kind (24 hours for
   search, 6 hours for trending). *)
C9_CacheAside ==
    (route_pc = "responded" /\ "cached_data" \in DOMAIN route_local) =>
        IF truthy(route_local.cached_data)
        THEN /\ response.status = 200
             /\ response.body.cached = TRUE
             /\ \A k \in DOMAIN route_local.cached_data
                          \ {"processingTime", "cached"} :
                    response.body[k] = route_local.cached_data[k]
             /\ batch_pc = "idle"
        ELSE /\ response.status = 200
             /\ \E e \in LiveEntries(route_local.cache_key) :
                    /\ e.expires = now + ttl_of(route_request)
                    /\ \A k \in DOMAIN json_loads(e.data) \ {"cached"} :
                           response.body[k] = json_loads(e.data)[k]

(* C10: a get of a key before the ttl of the key's last put has elapsed, in
   particular immediately after the put, returns what was put; a get once the
   ttl has elapsed returns None; a key never has more than one live entry. *)
C10_PutGetExpire ==
    /\ (got # NoGet /\ last_put[got.key] # NoPut) =>
           LET put == last_put[got.key]
           IN  /\ got.at < put.at + put.ttl => got.result = put.data
               /\ got.at >= put.at + put.ttl => got.result = None
    /\ \A k \in CacheKeys : Cardinality(LiveEntries(k)) <= 1

(* a key was read immediately after a put of a result with emotes, later
   than the start, and by then the other key's entry had expired *)
C10_Witness ==
    /\ got # NoGet
    /\ last_put[got.key] # NoPut
    /\ got.at = last_put[got.key].at
    /\ got.at > 0
    /\ got.result = FoundResult
    /\ \E e \in redis : e.key # got.key /\ ~live(e, now)
    /\ \E k \in CacheKeys : k # got.key /\ last_put[k] # NoPut

LiveKeys(store, t) == {e.key : e \in {f \in store : live(f, t)}}

SearchKeys(K) == {k \in K : SubSeq(k, 1, 13) = SearchPrefix \o Colon}
TrendingKeys(K) == {k \in K : SubSeq(k, 1, 9) = TrendingPrefix \o Colon}

(* the keys clear_cache is to delete for a cache_type *)
Selected(cache_type, K) ==
    IF cache_type = "search" THEN SearchKeys(K)
    ELSE IF cache_type = "trending" THEN TrendingKeys(K)
    ELSE IF cache_type = "all" THEN SearchKeys(K) \cup TrendingKeys(K)
    ELSE {}

(* the payload of the except RedisError branch *)
RedisErrorPayload(r) ==
    r.status = 200 /\ r.body.message = <<"Error clearing cache: ">>

(* C11: a call of clear_cache with type search, trending or all, when the
   store raises no RedisError, deletes exactly the live keys of the selected
   prefixes, leaves every other entry as it was, and reports success with
   the number of keys deleted; a call with another type reports
   success = false and deletes nothing. *)
C11_ClearExactly ==
    [][(/\ clear_pc = "idle" /\ clear_pc' = "responded"
        /\ ~RedisErrorPayload(clear_response')) =>
          LET cache_type == clear_response'.cache_type
              before == LiveKeys(redis, now)
              gone == Selected(cache_type, before)
          IN  /\ redis' = {e \in redis : e.key \notin gone}
              /\ clear_response'.status = 200
              /\ IF cache_type \in {"all", "search", "trending"}
                 THEN /\ clear_response'.body.success = TRUE
                      /\ clear_response'.body.message =
                             cleared_message(Cardinality(gone))
                 ELSE clear_response'.body.success = FALSE]_vars

(* C12: a request whose cache lookup failed because the store is
   unreachable still completes: its response is a result (status 200 with a
   body that is not taken from the cache), never an error. *)
C12_CacheFailureNotFatal ==
    (route_pc = "responded" /\ "raised" \in DOMAIN route_local) =>
        /\ response.status = 200
        /\ response.body.success = TRUE
        /\ "cached" \notin DOMAIN response.body

(* the stored items of the request's prefix, and their number *)
StoredNames == {name \in DOMAIN blobs : starts_with(name, stor_request.prefix)}
StoredTotal == Cardinality(StoredNames)

StorResponded == stor_pc = "responded"

(* C13: a listing request during which the store's listing fails gets a
   failure: success = false, never a successful empty listing. *)
C13_ListingFailureFatal ==
    (StorResponded /\ stor_request.available /\ stor_request.fault) =>
        stor_response.success = FALSE

(* the structured failure payload *)
FailurePayload(r) ==
    /\ r.success = FALSE
    /\ r.emotes = <<>>
    /\ r.hasNextPage = FALSE
    /\ r.message # None

StartIdx == (stor_request.page - 1) * stor_request.limit

(* the number of items the listing of the request returned *)
ListedTotal == IF stor_request.fault THEN 0 ELSE StoredTotal

(* C14 as stated: when the store is not available, or when
   (page-1)*limit >= total, the response is the failure payload:
   success = false, no emotes, hasNextPage = false and a message. *)
C14_FailurePayload ==
    (StorResponded /\ (~stor_request.available \/ StartIdx >= StoredTotal)) =>
        FailurePayload(stor_response)

(* C14, amended: when the store is not available, or when the listing
   returned at least one item and the requested page starts beyond the last
   one, the response is the failure payload. *)
C14_FailurePayloadNonEmpty ==
    (StorResponded /\ (\/ ~stor_request.available
                       \/ ListedTotal > 0 /\ StartIdx >= ListedTotal)) =>
        FailurePayload(stor_response)

(* a page that starts right after the last of the listed items was refused *)
C14_Witness ==
    /\ StorResponded
    /\ stor_request.available
    /\ ListedTotal > 0
    /\ StartIdx = ListedTotal
    /\ FailurePayload(stor_response)
    /\ stor_response.totalFound = ListedTotal

(* the stored names of the request's prefix in name order *)
SortedStored == sort_by_name(set_to_seq(StoredNames))

(* ceil(n / l) *)
CeilDiv(n, l) == CHOOSE q \in 0..n : q * l >= n /\ (q = 0 \/ (q - 1) * l < n)

(* C15: for N stored items and a request with (page-1)*limit < N, the
   response is successful and holds the items at sorted positions
   (page-1)*limit+1 .. min(page*limit, N), with totalFound = N,
   totalPages = ceil(N/limit), and hasNextPage exactly when
   page < totalPages. *)
C15_PageOfSortedListing ==
    (StorResponded /\ stor_request.available /\ ~stor_request.fault
       /\ StartIdx < StoredTotal) =>
        /\ stor_response.success = TRUE
        /\ [i \in DOMAIN stor_response.emotes |->
               stor_response.emotes[i].url.blob]
             = SubSeq(SortedStored, StartIdx + 1,
                      min(stor_request.page * stor_request.limit, StoredTotal))
        /\ stor_response.totalFound = StoredTotal
        /\ stor_response.totalPages = CeilDiv(StoredTotal, stor_request.limit)
        /\ stor_response.hasNextPage
             = (stor_request.page < CeilDiv(StoredTotal, stor_request.limit))

(* the variants given to the selection, by kind and format *)
Members == {variants[i] : i \in DOMAIN variants}
AnimatedOf(mime) == {v \in Members : v.frameCount > 1 /\ v.mime = mime}
StaticOf(mime) == {v \in Members : v.frameCount <= 1 /\ v.mime = mime}
MaxScaleOf(S) == {v \in S : \A w \in S : w.scale <= v.scale}
ExactWebp == {v \in AnimatedOf("image/webp") : v.scale = 4}
SelFinished == sel_pc = "selected"

(* C16: whenever the list holds an animated webp of scale exactly 4, the
   selected variant is an animated webp of scale 4, whatever else the list
   holds and in whatever order. *)
C16_ExactWebpFirst ==
    (SelFinished /\ ExactWebp # {}) => selected \in ExactWebp

(* an animated webp of a larger scale stands before the one of scale 4 *)
C16_Witness ==
    /\ SelFinished
    /\ variants = <<Img("u", "image/webp", 12, 8),
                    Img("u", "image/webp", 12, 4)>>
    /\ selected = Img("u", "image/webp", 12, 4)

(* C17: with no animated webp of scale 4, the selected variant is the
   animated webp of maximal scale if there is an animated webp, otherwise
   the animated gif of maximal scale if there is one, otherwise the animated
   avif of maximal scale if there is one; static variants never win over
   these. *)
C17_AnimatedByFormat ==
    (SelFinished /\ ExactWebp = {}) =>
        IF AnimatedOf("image/webp") # {}
        THEN selected \in MaxScaleOf(AnimatedOf("image/webp"))
        ELSE IF AnimatedOf("image/gif") # {}
        THEN selected \in MaxScaleOf(AnimatedOf("image/gif"))
        ELSE IF AnimatedOf("image/avif") # {}
        THEN selected \in MaxScaleOf(AnimatedOf("image/avif"))
        ELSE TRUE

(* an animated avif of a larger scale stands before an animated gif *)
C17_Witness ==
    /\ SelFinished
    /\ variants = <<Img("u", "image/avif", 12, 8),
                    Img("u", "image/gif", 12, 2)>>
    /\ selected = Img("u", "image/gif", 12, 2)

(* C18: with no animated variant in webp, gif or avif, the selected variant
   is the static variant of maximal scale of the first non-empty format
   among webp, png, avif: of a static png of scale 2 and a static webp of
   scale 1 the webp is selected. *)
C18_StaticByFormat ==
    ( /\ SelFinished
      /\ AnimatedOf("image/webp") = {}
      /\ AnimatedOf("image/gif") = {}
      /\ AnimatedOf("image/avif") = {} ) =>
        IF StaticOf("image/webp") # {}
        THEN selected \in MaxScaleOf(StaticOf("image/webp"))
        ELSE IF StaticOf("image/png") # {}
        THEN selected \in MaxScaleOf(StaticOf("image/png"))
        ELSE IF StaticOf("image/avif") # {}
        THEN selected \in MaxScaleOf(StaticOf("image/avif"))
        ELSE TRUE

(* the static png of scale 2 before the static webp of scale 1 *)
C18_Witness ==
    /\ SelFinished
    /\ variants = <<Img("u", "image/png", 1, 2),
                    Img("u", "image/webp", 1, 1)>>
    /\ selected = Img("u", "image/webp", 1, 1)

(* no variant that one of the four priorities would take *)
NoCandidate ==
    /\ \A m \in {"image/webp", "image/gif", "image/avif"} :
           AnimatedOf(m) = {}
    /\ \A m \in {"image/webp", "image/png", "image/avif"} :
           StaticOf(m) = {}

(* C19: the selection gives none exactly when the list is empty; for a
   non-empty list it gives a member of the list, and the first one in input
   order when none of the four priorities has a candidate. *)
C19_NoneOnlyWhenEmpty ==
    SelFinished =>
        /\ (selected = None) <=> (variants = <<>>)
        /\ variants # <<>> => selected \in Members
        /\ (variants # <<>> /\ NoCandidate) => selected = variants[1]

(* a static gif before an animated png: none of the four priorities takes
   either, the first is selected *)
C19_Witness ==
    /\ SelFinished
    /\ variants = <<Img("u", "image/gif", 1, 1),
                    Img("u", "image/png", 12, 8)>>
    /\ NoCandidate
    /\ selected = variants[1]

(* the records of the batch whose selection has been made and kept *)
Chosen == {t \in Tasks : task_local[t].type = "locals"}

(* C20: the selection depends on the variant list only: two records of a
   batch with the same list get the same variant, whatever the container
   holds when each is processed and whatever the other workers are doing. *)
C20_SelectionDeterministic ==
    \A i, j \in Chosen :
        emotes[i].images = emotes[j].images
            => task_local[i].best_image = task_local[j].best_image

(* two records with the same list: one selected on an empty container and
   stored its blob, the other selected afterwards and found that blob *)
C20_Witness ==
    \E i, j \in Chosen :
        /\ i # j
        /\ emotes[i].images = emotes[j].images
        /\ outcome[i] = "stored" /\ outcome[j] = "existing"
        /\ task_local[i].best_image = task_local[j].best_image
        /\ task_local[i].blob_name \in DOMAIN blobs

(* the bytes fetched for the record's selected variant *)
FetchedBytes(t) == response_content(task_local[t].best_image.url)

AnimatedWebp(img) == img.mime = "image/webp" /\ img.frameCount > 1

(* C21: the fetched bytes are transcoded only when the selected variant is
   an animated webp; for every other selected variant the bytes handed to
   the store, and the bytes the store then holds, are the fetched bytes. *)
C21_TranscodeOnlyAnimatedWebp ==
    \A t \in Chosen :
        /\ task_local[t].content # FetchedBytes(t)
              => AnimatedWebp(task_local[t].best_image)
        /\ ~AnimatedWebp(task_local[t].best_image)
              => /\ task_local[t].content = FetchedBytes(t)
                 /\ outcome[t] = "stored"
                       => blobs[task_local[t].blob_name] = FetchedBytes(t)

(* an animated gif has been stored as fetched *)
C21_Witness ==
    \E t \in Chosen :
        /\ task_local[t].best_image.mime = "image/gif"
        /\ task_local[t].best_image.frameCount > 1
        /\ outcome[t] = "stored"
        /\ blobs[task_local[t].blob_name] = FetchedBytes(t)

(* the characters that the sanitization keeps *)
KeptChars == AlnumChars \cup {".", "_", "-", " "}

(* the extension that goes with a mime *)
ExtensionFor(mime) ==
    IF mime = "image/webp" THEN <<".", "w", "e", "b", "p">>
    ELSE IF mime = "image/gif" THEN <<".", "g", "i", "f">>
    ELSE IF mime = "image/avif" THEN <<".", "a", "v", "i", "f">>
    ELSE <<".", "p", "n", "g">>

(* C22: the blob name of a record is the destination folder, '/', the
   sanitized display name and the extension: the sanitized name has the
   length of the display name, keeps each alphanumeric character and each
   of '.', '_', '-', space, and has '_' in the place of every other
   character; the extension is .webp, .gif, .avif or .png by the selected
   variant's mime, .png for any other mime. *)
C22_BlobName ==
    \A t \in Chosen :
        LET name == emotes[t].defaultName
            bn == task_local[t].blob_name
            ext == ExtensionFor(task_local[t].best_image.mime)
            at == Len(folder) + 1
        IN  /\ Len(bn) = Len(folder) + 1 + Len(name) + Len(ext)
            /\ SubSeq(bn, 1, Len(folder)) = folder
            /\ bn[at] = "/"
            /\ \A i \in 1..Len(name) :
                   bn[at + i] = IF name[i] \in KeptChars THEN name[i] ELSE "_"
            /\ SubSeq(bn, at + Len(name) + 1, Len(bn)) = ext
            /\ outcome[t] = "stored"
                  => /\ bn \in DOMAIN blobs
                     /\ results[t].fileName = SubSeq(bn, at + 1, Len(bn))

(* the record named "-/" with a jpeg variant, stored under trending_emotes
   as "-_.png" *)
C22_Witness ==
    \E t \in Chosen :
        /\ emotes[t].defaultName = <<"-", "/">>
        /\ task_local[t].best_image.mime = "image/jpeg"
        /\ folder = TrendingFolder
        /\ outcome[t] = "stored"
        /\ task_local[t].blob_name =
               TrendingFolder \o <<"/", "-", "_", ".", "p", "n", "g">>
        /\ task_local[t].blob_name \in DOMAIN blobs

(* the transcoder has returned from a call with a byte budget *)
BudgetReturned == img_pc = "returned" /\ img_call.max_bytes # None

(* the qualities of the call's path, in the order they are tried *)
TriedQualities ==
    IF img_call.image.is_animated /\ img_call.image.n_frames > 1
    THEN <<80, 70, 60, 50, 40, 35, 30, 25, 20>>
    ELSE <<95, 90, 85, 80, 70, 60, 50, 40>>

(* the positions of the tried qualities whose encoding meets the budget *)
Fitting ==
    {i \in DOMAIN TriedQualities :
        img_call.encoded_size[TriedQualities[i]] <= img_call.max_bytes.value}

(* C23: with a byte budget the qualities are tried in the fixed descending
   order of the path, and the result is the encoding at the first, that is
   the highest, quality whose length is within the budget; when no quality
   is within the budget an encoding is returned all the same. *)
C23_BudgetSearch ==
    BudgetReturned =>
        /\ img_result.format = "WEBP"
        /\ \E i \in DOMAIN TriedQualities :
              /\ img_result.quality = TriedQualities[i]
              /\ img_result.length = img_call.encoded_size[TriedQualities[i]]
              /\ Fitting # {} =>
                    /\ i \in Fitting
                    /\ \A j \in Fitting : i <= j
                    /\ \A j \in Fitting :
                          TriedQualities[j] <= img_result.quality

(* an animated image whose encodings at 80 and 70 exceed the budget and
   whose encoding at 60 meets it *)
C23_Witness ==
    /\ BudgetReturned
    /\ img_call.image.n_frames = 2
    /\ img_call.max_bytes = IntArg(1)
    /\ img_call.encoded_size[80] = 2
    /\ img_call.encoded_size[70] = 2
    /\ img_call.encoded_size[60] = 1
    /\ img_result.quality = 60
    /\ img_result.length = 1

(* C24: with a budget below every attempted encoding the returned result's
   length is the smallest among all attempted encodings, whatever the
   lengths at the quality levels are. *)
C24_SmallestReturned ==
    (BudgetReturned /\ Fitting = {}) =>
        \A i \in DOMAIN TriedQualities :
            img_result.length <= img_call.encoded_size[TriedQualities[i]]

(* the transcoder has returned from a call with an animated image *)
AnimatedReturned ==
    /\ img_pc = "returned"
    /\ img_call.image.is_animated /\ img_call.image.n_frames > 1

(* C25: the animated transcoding keeps the number of frames, the loop count
   and the frames' durations in order: frame i of the output has the
   duration of frame i of the source, or the duration of the source image
   when the frame has none, or 100 ms when there is neither. *)
C25_FramesPreserved ==
    AnimatedReturned =>
        LET src == img_call.image
        IN  /\ Len(img_result.frames) = Len(src.frames)
            /\ Len(img_result.durations) = Len(src.frames)
            /\ "loop" \in DOMAIN src.info => img_result.loop = src.info.loop
            /\ \A i \in DOMAIN src.frames :
                   img_result.durations[i] =
                       IF "duration" \in DOMAIN src.frames[i].info
                       THEN src.frames[i].info.duration
                       ELSE IF "duration" \in DOMAIN src.info
                       THEN src.info.duration
                       ELSE 100

(* a first frame of 40 ms, a second frame without duration in an image
   without duration, looping 3 times *)
C25_Witness ==
    /\ AnimatedReturned
    /\ img_call.image.frames[1].info = [duration |-> 40]
    /\ "duration" \notin DOMAIN img_call.image.frames[2].info
    /\ DOMAIN img_call.image.info = {"loop"}
    /\ img_call.image.info.loop = 3
    /\ img_result.durations = <<40, 100>>
    /\ img_result.loop = 3

(* C26: every normalized frame is a canvas of exactly the target size W x H;
   the content is scaled to at most W x H and is never larger than the
   source; it is pasted at ((W-w)//2, (H-h)//2), both offsets non-negative,
   so that it lies inside the canvas, and every pixel outside it is
   transparent. *)
C26_CanvasGeometry ==
    img_pc = "returned" =>
        \A i \in DOMAIN img_result.frames :
            LET canvas == img_result.frames[i]
                src == img_call.image.frames[i]
                W == img_call.size[1]
                H == img_call.size[2]
                w == canvas.content[1]
                h == canvas.content[2]
                x == canvas.offset[1]
                y == canvas.offset[2]
            IN  /\ DOMAIN canvas.pixels = (0..(W - 1)) \X (0..(H - 1))
                /\ 1 <= w /\ w <= W /\ 1 <= h /\ h <= H
                /\ w <= src.width /\ h <= src.height
                /\ x = (W - w) \div 2 /\ y = (H - h) \div 2
                /\ x >= 0 /\ y >= 0 /\ x + w <= W /\ y + h <= H
                /\ \A p \in DOMAIN canvas.pixels :
                       canvas.pixels[p] = "content"
                           <=> /\ x <= p[1] /\ p[1] < x + w
                               /\ y <= p[2] /\ p[2] < y + h

(* a 3 x 3 source on a 3 x 1 target: scaled to 1 x 1, pasted at (1, 0) *)
C26_Witness ==
    /\ img_pc = "returned"
    /\ img_call.size = <<3, 1>>
    /\ img_call.image.frames[1].width = 3
    /\ img_call.image.frames[1].height = 3
    /\ img_result.frames[1].content = <<1, 1>>
    /\ img_result.frames[1].offset = <<1, 0>>
    /\ img_result.frames[1].pixels[<<1, 0>>] = "content"
    /\ img_result.frames[1].pixels[<<0, 0>>] = "transparent"

(* the reply is a 200 answer whose body has a dict under every key of the
   function's path and a list under the last, and, for the trending
   function, no errors field *)
WellFormedReply ==
    LET keys == IF fetch_call.function = "search"
                THEN <<"data", "emotes", "search", "items">>
                ELSE <<"data", "emotes", "items">>
        G[i \in 0..Len(keys)] ==
            IF i = 0 THEN fetch_call.reply.body
            ELSE IF G[i-1].type = "dict" /\ keys[i] \in DOMAIN G[i-1].items
            THEN G[i-1].items[keys[i]]
            ELSE [type |-> "broken"]
    IN  /\ fetch_call.reply.kind = "response"
        /\ fetch_call.reply.status_code = 200
        /\ G[Len(keys)].type = "list"
        /\ fetch_call.function = "trending"
              => "errors" \notin DOMAIN fetch_call.reply.body.items

(* C27: the upstream fetch functions never raise to their caller: on a
   non-200 status, a network exception, a malformed body or, for trending,
   an errors field, they return an empty sequence. *)
C27_FetchNeverRaises ==
    fetch_pc = "returned" =>
        /\ fetch_result # Raised
        /\ ~WellFormedReply => fetch_result = PyList(<<>>)

(* C28: during a batch no shared mutable state other than the store and
   the cache is written by more than one per-record task: when the storage
   handles are not yet initialised, the workers do not both assign the
   globals blob_service_client and container_client. *)
C28_HandlesWrittenOnce ==
    /\ Cardinality(handle_writes.blob_service_client) <= 1
    /\ Cardinality(handle_writes.container_client) <= 1

(* the records of the requested page among those the upstream returns *)
TrendPageSlice ==
    LET r == trend_request
        fetched == SubSeq(r.upstream, 1, min(r.page * r.limit, Len(r.upstream)))
    IN  SubSeq(fetched, (r.page - 1) * r.limit + 1,
               min(r.page * r.limit, Len(fetched)))

(* C29: in the trending flow every upstream record of the requested page
   goes through select, fetch and store: when the upstream returns records
   that each offer an image file and every fetch and store succeeds, the
   response's emotes list has one entry for each record of the page slice. *)
C29_TrendingPageProcessed ==
    ( /\ trend_pc = "responded"
      /\ ~truthy(trend_local.cached_data)
      /\ trend_request.upstream # <<>> ) =>
        /\ "emotes" \in DOMAIN trend_response
        /\ Len(trend_response.emotes) = Len(TrendPageSlice)
        /\ \A i \in DOMAIN TrendPageSlice :
               trend_response.emotes[i].emoteId = TrendPageSlice[i].id

(* the positions of the records that succeeded, in input order *)
SucceededTasks ==
    SelectSeq([t \in 1..Len(emotes) |-> t], LAMBDA t : Succeeded(t))

(* C30: the list returned by process_emotes_batch is the input order
   restricted to the successful records: the entry of a successful record a
   precedes the entry of a successful record b whenever a precedes b in the
   input, whatever order the worker tasks finish in. *)
C30_InputOrderKept ==
    batch_pc = "returned" =>
        /\ Len(processed_emotes) = Len(SucceededTasks)
        /\ \A i \in DOMAIN SucceededTasks :
               processed_emotes[i] = ExpectedEntry(SucceededTasks[i])

(* the second record wrote the blob both records name before the first
   record looked for it, so the second task finished first; the first
   record's entry is still first *)
C30_Witness ==
    /\ batch_pc = "returned"
    /\ Len(emotes) = 2
    /\ emotes[1].id = "e1" /\ emotes[2].id = "e2"
    /\ outcome[1] = "existing" /\ outcome[2] = "stored"
    /\ Len(processed_emotes) = 2
    /\ processed_emotes[1].emoteId = "e1"
    /\ processed_emotes[2].emoteId = "e2"

(* the blob an entry names: folder/fileName *)
EntryBlobName(entry) == blob_name_of(folder, entry.fileName)

(* C31: every entry returned by process_emote refers to a blob that holds
   content in the store when the entry is produced: an entry exists only
   after upload_to_azure_blob found the name present or completed a write,
   and its url is the reference of the blob named folder/fileName. *)
C31_EntryHasBlob ==
    \A t \in Tasks :
        results[t].type = "entry" =>
            /\ outcome[t] \in {"existing", "stored"}
            /\ EntryBlobName(results[t]) \in DOMAIN blobs
            /\ results[t].url = blob_url(EntryBlobName(results[t]))

(* one record's entry comes from its own write, a sibling's entry from
   finding that blob in the store *)
C31_Witness ==
    /\ Len(emotes) = 2
    /\ outcome[1] = "stored" /\ outcome[2] = "existing"
    /\ results[1].type = "entry" /\ results[2].type = "entry"
    /\ blobs[EntryBlobName(results[1])] = task_local[1].content
    /\ results[2].url = blob_url(task_local[1].blob_name)

(* record t ends in this step without a variant or without its image *)
EndsBeforeStore(t) ==
    /\ outcome[t] = "pending"
    /\ outcome'[t] \in {"select_none", "fetch_failed"}

(* C32: a record whose selection returns none or whose image fetch does not
   answer 200 causes no store operation at all: its pipeline ends without
   having reached the existence check or the write, and the set of blobs
   and their contents are as they were. *)
C32_NoStoreOperation ==
    [][\A t \in Tasks :
          ( /\ batch_pc = "running" /\ batch_pc' = "running"
            /\ EndsBeforeStore(t) ) =>
              /\ blobs' = blobs
              /\ task_local[t] = NoLocal
              /\ task_local'[t] = NoLocal
              /\ results'[t] = None]_vars

(* in a store that holds a blob, one record ended at the selection and one
   at the download, and the batch returned *)
C32_Witness ==
    /\ batch_pc = "returned"
    /\ blobs # <<>>
    /\ \E t, u \in Tasks :
          /\ outcome[t] = "select_none" /\ task_local[t] = NoLocal
          /\ outcome[u] = "fetch_failed" /\ task_local[u] = NoLocal

(* main.py has answered a trending request that missed the cache *)
FreshTrending ==
    /\ route_pc = "responded"
    /\ route_request.kind = "trending"
    /\ "fetched" \in DOMAIN route_local

(* the bounds of the claim on a fresh response *)
NoNextPage ==
    /\ response.body.totalFound <= min(route_request.page * route_request.limit,
                                       fetch_cap)
    /\ response.body.totalPages <= route_request.page
    /\ response.body.hasNextPage = FALSE

(* C33 as stated: in the trending endpoint, for every page, limit and
   upstream result, totalFound <= min(page*limit, 300), so totalPages <=
   page and a freshly computed response never has hasNextPage = true. *)
C33_NeverNextPage == FreshTrending => NoNextPage

(* C33 amended: when the upstream answers with no more records than the
   fetch limit it was asked for, totalFound <= min(page*limit, 300),
   totalPages <= page and the freshly computed response has hasNextPage =
   false. *)
C33_NeverNextPageWithinLimit ==
    (FreshTrending /\ Len(route_local.fetched) <= route_local.fetch_limit)
        => NoNextPage

(* page 2 of limit 1: two records were asked for and two came; the page is
   the last one *)
C33_Witness ==
    /\ FreshTrending
    /\ route_request.page = 2 /\ route_request.limit = 1
    /\ Len(route_local.fetched) = 2
    /\ response.body.totalFound = 2
    /\ response.body.totalPages = 2
    /\ response.body.hasNextPage = FALSE
    /\ Len(response.body.emotes) = 1

(* the trending endpoint of routes/trending.py has answered a request that
   missed the cache *)
TrendMissed == trend_pc = "responded" /\ ~truthy(trend_local.cached_data)

(* the first position of the requested page is beyond the fetched records *)
PageBeyondFetched ==
    (trend_request.page - 1) * trend_request.limit >= Len(trend_request.upstream)

(* C34: the trending endpoint never asks the upstream for more than 300
   records (fetch limit = min(page*limit, 300)), and when (page-1)*limit is
   at or beyond the number of records fetched the response is success=true
   with an empty emotes list and page > totalPages, where the storage
   endpoints answer success=false. *)
C34_EmptyPageSucceeds ==
    TrendMissed =>
        /\ trend_local.fetch_limit.value =
               min(trend_request.page * trend_request.limit, fetch_cap)
        /\ PageBeyondFetched =>
               /\ "success" \in DOMAIN trend_response
               /\ trend_response.success = TRUE
               /\ trend_response.emotes = <<>>
               /\ trend_request.page > trend_response.totalPages

(* main.py has answered a search request with a result *)
SearchAnswered ==
    /\ route_pc = "responded"
    /\ route_request.kind = "search"
    /\ response.status = 200

(* the positions of the fetched records that did not fail, in order *)
IngestedPositions ==
    SelectSeq([i \in 1..Len(route_local.fetched) |-> i],
              LAMBDA i : i \notin route_local.failed)

(* C35: in every search response totalFound is the number of records the
   upstream returned and the emotes list holds only the successfully
   ingested ones: len(emotes) <= totalFound, with strict inequality exactly
   when at least one record failed; totalPages is always 1. *)
C35_SearchCounts ==
    SearchAnswered =>
        /\ Len(response.body.emotes) <= response.body.totalFound
        /\ response.body.totalPages = 1
        /\ "fetched" \in DOMAIN route_local =>
              /\ response.body.totalFound = Len(route_local.fetched)
              /\ Len(response.body.emotes) = Len(IngestedPositions)
              /\ \A i \in DOMAIN IngestedPositions :
                    response.body.emotes[i].emoteId =
                        route_local.fetched[IngestedPositions[i]].id
              /\ (Len(response.body.emotes) < response.body.totalFound)
                     <=> (route_local.failed # {})

(* two records came from the upstream, the first one failed: one entry,
   totalFound 2 *)
C35_Witness ==
    /\ SearchAnswered
    /\ "fetched" \in DOMAIN route_local
    /\ Len(route_local.fetched) = 2
    /\ route_local.failed = {1}
    /\ response.body.totalFound = 2
    /\ Len(response.body.emotes) = 1
    /\ response.body.totalPages = 1

(* the live entry of the request's key holds the emotes list of the
   response *)
ResponseCached ==
    /\ "emotes" \in DOMAIN trend_response
    /\ \E e \in LiveEntries(trend_local.cache_key) :
          /\ e.expires = now + TRENDING_CACHE_TTL
          /\ json_loads(e.data).emotes = trend_response.emotes

(* C36: a result computed while the upstream failed (or while records
   failed) is cached like any other: once a request that missed the cache
   has been answered with an empty result, the cache holds that emotes list
   under the request's key for the TTL, so that identical requests are
   answered from it. *)
C36_EmptyResultCached ==
    (TrendMissed /\ trend_request.upstream = <<>>) => ResponseCached

(* this step is the answer to a request served from a live entry *)
HitStep ==
    /\ route_pc = "looked_up"
    /\ route_pc' = "responded"
    /\ truthy(route_local.cached_data)

(* C37: a cache hit never writes to the cache: serving a request from a
   live entry leaves every entry's payload and expiry unchanged, so the
   entry still expires one TTL after the save that wrote it, however many
   hits occur in between. *)
C37_HitWritesNothing ==
    [][HitStep =>
          /\ redis' = redis
          /\ \A e \in redis' :
                /\ e.expires = last_put'[e.key].at + last_put'[e.key].ttl
                /\ e.data = json_dumps(last_put'[e.key].data)]_vars

(* a request is answered from an entry written earlier: the entry still
   expires one TTL after its save *)
C37_Witness ==
    /\ route_pc = "responded"
    /\ response.status = 200
    /\ response.body.cached = TRUE
    /\ \E e \in LiveEntries(route_local.cache_key) :
          /\ last_put[e.key].at < now
          /\ e.expires = last_put[e.key].at + last_put[e.key].ttl

(* the names in page p of the request's listing, for the request's limit *)
PageNames(p) ==
    LET listed == storage_listing(blobs, stor_request.prefix, p,
                                  stor_request.limit, TRUE, FALSE, 3).emotes
    IN  [i \in DOMAIN listed |-> listed[i].url.blob]

RECURSIVE PagesUpTo(_)
(* pages 1..p one after the other *)
PagesUpTo(p) == IF p = 0 THEN <<>> ELSE PagesUpTo(p - 1) \o PageNames(p)

(* the listed names that are neither the folder itself nor end in "/" *)
ListedFiles ==
    SelectSeq(SortedStored, LAMBDA name : ~skipped(name, stor_request.prefix))

(* C38: for a fixed store content and a fixed limit, the storage pages
   1..totalPages are pairwise disjoint slices of the name-sorted listing and
   together cover it: read one after the other they are the listed blobs
   whose name does not end in "/", each exactly once, in ascending name
   order. *)
C38_PagesPartitionListing ==
    (StorResponded /\ stor_request.available /\ ~stor_request.fault) =>
        PagesUpTo(CeilDiv(StoredTotal, stor_request.limit)) = ListedFiles

====
